---- MODULE Spec2Model ----
(***************************************************************************)
(* The flow execution engine of src/components/agent_executor.py:          *)
(* AgentExecutor.execute_flow, its validator, its scheduler                *)
(* (_build_execution_order) and its node handlers.                         *)
(*                                                                         *)
(* Strings are modelled as sequences of tokens: "Echo: {input}" is         *)
(* <<"Echo: ", "{input}">>, and str.replace acts token by token.           *)
(* Node ids are the strings "n1", "n2", ...; "n0" is an id that no node    *)
(* list carries.  The program compares ids only for equality, so a node    *)
(* list with unique ids is, up to renaming, <<n1, .., nk>>.                *)
(***************************************************************************)
EXTENDS Integers, Sequences, FiniteSets, TLC

VARIABLES
    nodes,          \* canvas_data['nodes']: sequence of node dicts
    connections,    \* canvas_data['connections']: sequence of {from, to}
    input_data,     \* the input text of the call
    mode,           \* the mode argument of the call
    strategy,       \* the method execute_flow dispatched to, "" before that
    client,         \* the LLM client's behaviour: "unset", "ok", "fail"
    http,           \* the HTTP endpoint's behaviour: "unset", "ok", "fail"
    caller,         \* who called _build_execution_order: "direct" or "execute_flow"
    pc,             \* position inside the call
    incoming,       \* _build_execution_order: dict node id -> list of sources
    queue,          \* _build_execution_order: the ready queue
    result,         \* _build_execution_order: the order built so far
    exc,            \* exception propagated to a direct caller, or NoExc
    execution_order,\* _execute_sequential: the order returned by the scheduler
    idx,            \* _execute_sequential: position of the for loop in the order
    current_data,   \* _execute_sequential: the value threaded through the nodes
    trace,          \* history: handler invocations <<node id, input, output>>
    ret,            \* the dict execute_flow returned, or NoRet
    callNo,         \* history: number of the call in progress
    prev,           \* history: order and outcome of the previous call, or NoRet
    stats,          \* the ExecutionStats object of the session
    recorded,       \* history: every execution recorded so far, oldest first
    now,            \* the clock datetime.now() reads
    submitted,      \* history: the last connection submitted and the verdict on it
    agent_running,  \* st.session_state.agent_running
    execution_log,  \* st.session_state.execution_log: the levels of its entries
    app_pc,         \* position inside _execute_agent_flow, "idle" outside it
    stopped,        \* history: Stop Execution was pressed during the call
    generated       \* history: the ids generate_node_id has returned, oldest first

\* the state outside the executor
\* the state of the application's session around a run
session == <<agent_running, execution_log, app_pc, stopped, generated>>

others == <<stats, recorded, now, submitted, session>>

vars == <<nodes, connections, input_data, mode, strategy, client, http, caller, pc, incoming, queue,
          result, exc, execution_order, idx, current_data, trace, ret, callNo,
          prev, stats, recorded, now, submitted, agent_running, execution_log,
          app_pc, stopped, generated>>

(***************************************************************************)
(* Bounds                                                                  *)
(***************************************************************************)
MaxNodes == 4        \* nodes of a scheduler input
MaxConns == 2        \* connections of a scheduler input
MaxFlowNodes == 3    \* nodes of an executed flow
MaxFlowConns == 2    \* connections of an executed flow

NoExc == [kind |-> "none"]
NoRet == [kind |-> "none"]

Id(i) == "n" \o ToString(i)

Range(s) == {s[i] : i \in 1..Len(s)}

(***************************************************************************)
(* Python list and dict helpers                                            *)
(***************************************************************************)

\* x in list
Contains(s, x) == \E i \in 1..Len(s) : s[i] = x

\* list.index(x) for a present x (1-based), 0 when absent
IndexOf(s, x) ==
    IF Contains(s, x) THEN CHOOSE i \in 1..Len(s) : s[i] = x /\ \A j \in 1..(i-1) : s[j] # x
    ELSE 0

\* a remove that drops every occurrence of x
RemoveAll(s, x) == SelectSeq(s, LAMBDA y : y # x)

\* list.remove(x): drops the first occurrence; the caller checks presence
\* (Python raises ValueError when x is absent)
RemoveFirst(s, x) ==
    LET i == IndexOf(s, x)
    IN  SubSeq(s, 1, i - 1) \o SubSeq(s, i + 1, Len(s))

\* str(KeyError(k)) is repr(k)
KeyErrorStr(k) == <<"'", k, "'">>

node_ids == [i \in 1..Len(nodes) |-> nodes[i].id]

\* the Python value None (a JSON null) where a str is expected
PyNone == <<"<None>">>

(***************************************************************************)
(* ExecutionStats (src/components/data_models.py, lines 69-101).           *)
(* Response times are whole ticks and avg_response_time is the fraction    *)
(* [num, den] in lowest terms: the running mean is computed by the         *)
(* formula of the code in exact arithmetic, the rounding of floats is      *)
(* left out.                                                               *)
(***************************************************************************)
RECURSIVE Gcd(_, _)
Gcd(a, b) == IF b = 0 THEN a ELSE Gcd(b, a % b)

\* p / q for p >= 0 and q > 0
Frac(p, q) == LET g == Gcd(p, q) IN [num |-> p \div g, den |-> q \div g]

\* lines 72-76: the defaults of the fields
ExecutionStats ==
    [total_runs |-> 0, successful_runs |-> 0, failed_runs |-> 0,
     avg_response_time |-> Frac(0, 1), execution_history |-> <<>>]

\* line 100: the number of history entries kept
HistoryCap == 100

\* counters that count every run as a failure as well
CountBoth(self, success) ==
    [total_runs |-> self.total_runs + 1,
     successful_runs |-> IF success THEN self.successful_runs + 1
                         ELSE self.successful_runs,
     failed_runs |-> self.failed_runs + 1]

\* lines 80-84
Count(self, success) ==
    [total_runs |-> self.total_runs + 1,
     successful_runs |-> IF success THEN self.successful_runs + 1
                         ELSE self.successful_runs,
     failed_runs |-> IF success THEN self.failed_runs
                     ELSE self.failed_runs + 1]

\* the formula with the count one too high: (avg * n + response_time) / (n + 1)
RunningMeanOffByOne(avg, n, response_time) ==
    Frac(avg.num * n + response_time * avg.den, avg.den * (n + 1))

\* lines 87-89: (avg * (n - 1) + response_time) / n, n the new total_runs
RunningMean(avg, n, response_time) ==
    Frac(avg.num * (n - 1) + response_time * avg.den, avg.den * n)

\* a cut that keeps the first HistoryCap entries: history[:100]
TruncateNewest(history) ==
    IF Len(history) > HistoryCap
    THEN SubSeq(history, 1, HistoryCap)
    ELSE history

\* lines 100-101: history[-100:] when the list is longer than 100
Truncate(history) ==
    IF Len(history) > HistoryCap
    THEN SubSeq(history, Len(history) - HistoryCap + 1, Len(history))
    ELSE history

\* lines 78-101; timestamp is what datetime.now() returns during the call
add_execution(self, success, response_time, error, timestamp) ==
    LET c == Count(self, success)
        entry == [timestamp |-> timestamp, success |-> success,
                  response_time |-> response_time, error |-> error]
    IN  [total_runs |-> c.total_runs,
         successful_runs |-> c.successful_runs,
         failed_runs |-> c.failed_runs,
         avg_response_time |->
             RunningMean(self.avg_response_time, c.total_runs, response_time),
         execution_history |-> Truncate(Append(self.execution_history, entry))]

(***************************************************************************)
(* CanvasManager.validate_connection (canvas_manager.py, lines 34-46)      *)
(***************************************************************************)
\* a check that only refuses self-connections
validate_connection_loops_only(from_node, to_node, conns) ==
    from_node # to_node

validate_connection(from_node, to_node, conns) ==
    IF from_node = to_node THEN FALSE
    ELSE ~(\E i \in 1..Len(conns) :
             conns[i].from = from_node /\ conns[i].to = to_node)

NoSubmission == [kind |-> "none"]

\* src/app.py, lines 55-56: the session before any run
SessionIdle ==
    /\ agent_running = FALSE
    /\ execution_log = <<>>
    /\ app_pc = "idle"
    /\ stopped = FALSE
    /\ generated = <<>>

\* the state outside the executor while the executor runs
OthersIdle ==
    /\ stats = ExecutionStats
    /\ recorded = <<>>
    /\ now = 0
    /\ submitted = NoSubmission
    /\ SessionIdle

(***************************************************************************)
(* _build_execution_order, lines 113-121: the incoming dict                *)
(***************************************************************************)

\* for conn in connections: incoming[conn['to']].append(conn['from'])
\* Returns the dict, or the KeyError of the first connection whose 'to' is
\* not a key.
RECURSIVE FillIncoming(_, _, _)
FillIncoming(inc, conns, i) ==
    IF i > Len(conns) THEN [raised |-> FALSE, inc |-> inc]
    ELSE IF conns[i].to \notin DOMAIN inc
         THEN [raised |-> TRUE, error |-> KeyErrorStr(conns[i].to)]
         ELSE FillIncoming(
                [inc EXCEPT ![conns[i].to] = Append(@, conns[i].from)],
                conns, i + 1)

BuildIncoming(ids, conns) ==
    FillIncoming([id \in Range(ids) |-> <<>>], conns, 1)

\* a seed that takes every node, with or without incoming connections
RECURSIVE SeedQueueAll(_, _, _)
SeedQueueAll(ids, inc, i) ==
    IF i > Len(ids) THEN <<>> ELSE <<ids[i]>> \o SeedQueueAll(ids, inc, i + 1)

\* queue = [node_id for node_id in node_ids if not incoming[node_id]]
RECURSIVE SeedQueue(_, _, _)
SeedQueue(ids, inc, i) ==
    IF i > Len(ids) THEN <<>>
    ELSE (IF inc[ids[i]] = <<>> THEN <<ids[i]>> ELSE <<>>) \o SeedQueue(ids, inc, i + 1)

(***************************************************************************)
(* _build_execution_order, lines 129-134: the for loop over connections    *)
(* after `current` has been appended to result                             *)
(***************************************************************************)
\* a loop that enqueues a successor at its first discharge, without the
\* test `not incoming[target]`
RECURSIVE DischargeEager(_, _, _, _, _, _)
DischargeEager(current, conns, i, inc, q, res) ==
    IF i > Len(conns) THEN [raised |-> FALSE, inc |-> inc, queue |-> q]
    ELSE IF conns[i].from # current THEN DischargeEager(current, conns, i + 1, inc, q, res)
    ELSE LET target == conns[i].to IN
         IF target \notin DOMAIN inc
         THEN [raised |-> TRUE, error |-> KeyErrorStr(target)]
         ELSE IF ~Contains(inc[target], current)
         THEN [raised |-> TRUE, error |-> <<"list.remove(x): x not in list">>]
         ELSE LET inc2 == [inc EXCEPT ![target] = RemoveFirst(@, current)]
                  ready == /\ ~Contains(q, target)
                           /\ ~Contains(res, target)
              IN  DischargeEager(current, conns, i + 1, inc2,
                                 IF ready THEN Append(q, target) ELSE q, res)

RECURSIVE Discharge(_, _, _, _, _, _)
Discharge(current, conns, i, inc, q, res) ==
    IF i > Len(conns) THEN [raised |-> FALSE, inc |-> inc, queue |-> q]
    ELSE IF conns[i].from # current THEN Discharge(current, conns, i + 1, inc, q, res)
    ELSE LET target == conns[i].to IN
         IF target \notin DOMAIN inc
         THEN [raised |-> TRUE, error |-> KeyErrorStr(target)]
         ELSE IF ~Contains(inc[target], current)
         THEN [raised |-> TRUE, error |-> <<"list.remove(x): x not in list">>]
         ELSE LET inc2 == [inc EXCEPT ![target] = RemoveFirst(@, current)]
                  ready == /\ inc2[target] = <<>>
                           /\ ~Contains(q, target)
                           /\ ~Contains(res, target)
              IN  Discharge(current, conns, i + 1, inc2,
                            IF ready THEN Append(q, target) ELSE q, res)

\* a stack instead of a queue: queue.pop()
DequeueLast(q) == [current |-> q[Len(q)], rest |-> SubSeq(q, 1, Len(q) - 1)]

\* a read of the head that leaves it in the queue: queue[0]
DequeuePeek(q) == [current |-> Head(q), rest |-> q]

\* queue.pop(0)
Dequeue(q) == [current |-> Head(q), rest |-> Tail(q)]

(***************************************************************************)
(* Exceptions: a direct caller of the scheduler sees the exception;        *)
(* execute_flow's except clause (lines 57-63) turns it into a result.      *)
(***************************************************************************)
Elapsed == {0, 1}

\* a failure that carries an output key as well
FailureWithOutput(msg, t) ==
    [success |-> FALSE, error |-> msg, output |-> PyNone, response_time |-> t]

Failure(msg, t) == [success |-> FALSE, error |-> msg, response_time |-> t]

\* an execute_flow without the except clause of lines 57-63
RaisePropagates(msg) ==
    /\ pc' = "raised"
    /\ exc' = [kind |-> "raised", error |-> msg]
    /\ ret' = ret

Raise(msg) ==
    IF caller = "execute_flow"
    THEN /\ pc' = "done"
         /\ \E t \in Elapsed : ret' = Failure(msg, t)
         /\ exc' = exc
    ELSE /\ pc' = "raised"
         /\ exc' = [kind |-> "raised", error |-> msg]
         /\ ret' = ret

(***************************************************************************)
(* Scheduler actions                                                       *)
(***************************************************************************)

\* lines 113-122
SchedStart ==
    /\ pc = "order"
    /\ LET b == BuildIncoming(node_ids, connections) IN
         IF b.raised
         THEN /\ Raise(b.error)
              /\ UNCHANGED <<incoming, queue, result>>
         ELSE /\ incoming' = b.inc
              /\ queue' = SeedQueue(node_ids, b.inc, 1)
              /\ result' = <<>>
              /\ pc' = "loop"
              /\ UNCHANGED <<exc, ret>>
    /\ UNCHANGED others
    /\ UNCHANGED <<nodes, connections, input_data, mode, strategy, client, http, caller,
                   execution_order, idx, current_data, trace, callNo, prev>>

\* a loop that does its bookkeeping on the caller's flow: the connections
\* leaving `current` are deleted from canvas_data
SchedLoopConsuming ==
    /\ pc = "loop"
    /\ queue # <<>>
    /\ LET d == Dequeue(queue)
           res == Append(result, d.current)
           r == Discharge(d.current, connections, 1, incoming, d.rest, res)
       IN  IF r.raised
           THEN /\ Raise(r.error)
                /\ UNCHANGED <<incoming, queue, result, connections>>
           ELSE /\ incoming' = r.inc
                /\ queue' = r.queue
                /\ result' = res
                /\ connections' = SelectSeq(connections,
                                     LAMBDA conn : conn.from # d.current)
                /\ pc' = "loop"
                /\ UNCHANGED <<exc, ret>>
    /\ UNCHANGED others
    /\ UNCHANGED <<nodes, input_data, mode, strategy, client, http, caller,
                   execution_order, idx, current_data, trace, callNo, prev>>

\* lines 124-134: one iteration of `while queue`
SchedLoop ==
    /\ pc = "loop"
    /\ queue # <<>>
    /\ LET d == Dequeue(queue)
           res == Append(result, d.current)
           r == Discharge(d.current, connections, 1, incoming, d.rest, res)
       IN  IF r.raised
           THEN /\ Raise(r.error)
                /\ UNCHANGED <<incoming, queue, result>>
           ELSE /\ incoming' = r.inc
                /\ queue' = r.queue
                /\ result' = res
                /\ pc' = "loop"
                /\ UNCHANGED <<exc, ret>>
    /\ UNCHANGED others
    /\ UNCHANGED <<nodes, connections, input_data, mode, strategy, client, http, caller,
                   execution_order, idx, current_data, trace, callNo, prev>>

\* line 136, called directly
SchedReturn ==
    /\ pc = "loop"
    /\ queue = <<>>
    /\ caller = "direct"
    /\ pc' = "returned"
    /\ UNCHANGED others
    /\ UNCHANGED <<nodes, connections, input_data, mode, strategy, client, http, caller, incoming,
                   queue, result, exc, execution_order, idx, current_data,
                   trace, ret, callNo, prev>>

(***************************************************************************)
(* The scheduler called on its own                                         *)
(***************************************************************************)
PlainNode(i) == [id |-> Id(i), type |-> "router", properties |-> <<>>]

\* the endpoints of connections over the listed ids n1..nk and the unlisted n0
Endpoints(k) == (0..k) \X (0..k)

ConnsOf(c) == [i \in DOMAIN c |-> [from |-> Id(c[i][1]), to |-> Id(c[i][2])]]

InitSched ==
    /\ \E k \in 0..MaxNodes :
         /\ nodes = [i \in 1..k |-> PlainNode(i)]
         /\ \E m \in 0..MaxConns :
              \E c \in [1..m -> Endpoints(k)] : connections = ConnsOf(c)
    /\ input_data = <<>>
    /\ mode = "sequential"
    /\ strategy = ""
    /\ client = "unset"
    /\ http = "unset"
    /\ caller = "direct"
    /\ pc = "order"
    /\ incoming = <<>>
    /\ queue = <<>>
    /\ result = <<>>
    /\ exc = NoExc
    /\ execution_order = <<>>
    /\ idx = 0
    /\ current_data = <<>>
    /\ trace = <<>>
    /\ ret = NoRet
    /\ callNo = 0
    /\ prev = NoRet
    /\ OthersIdle

NextSched == SchedStart \/ SchedLoop \/ SchedReturn

SpecSched == InitSched /\ [][NextSched]_vars

\* the scheduler is a plain loop that nothing suspends: a step that can be
\* taken is taken
SpecSchedLive == SpecSched /\ WF_vars(NextSched)

(***************************************************************************)
(* Node handlers (lines 138-298).  A handler returns                       *)
(* [raised |-> FALSE, value |-> v] or [raised |-> TRUE, error |-> msg].    *)
(***************************************************************************)

\* dict.get(key, default)
Get(d, key, default) == IF key \in DOMAIN d THEN d[key] ELSE default

Returned(v) == [raised |-> FALSE, value |-> v]
Raised(msg) == [raised |-> TRUE, error |-> msg]

\* str.replace(tok, v): every occurrence, left to right, no rescanning
RECURSIVE Replace(_, _, _)
Replace(s, tok, v) ==
    IF s = <<>> THEN <<>>
    ELSE (IF Head(s) = tok THEN v ELSE <<Head(s)>>) \o Replace(Tail(s), tok, v)

\* what the stub client answers to (system_prompt, input_data), and the
\* message of the exception it raises when it fails
Completion(system_prompt, text) == <<"completion(">> \o text \o <<")">>
ClientError == <<"Connection error.">>

\* the body of the HTTP response to a POST of {'data': text}
ResponseText(text) == <<"response(">> \o text \o <<")">>

\* lines 182-206
execute_llm_node(properties, text, c) ==
    IF c = "ok"
    THEN Returned(Completion(
            Get(properties, "system_prompt", <<"You are a helpful assistant.">>), text))
    ELSE Returned(<<"LLM Error: ">> \o ClientError)

\* the prompt handler without the `if 'input' in variables` test
execute_prompt_node_always(properties, text) ==
    LET template == Get(properties, "template", <<"{input}">>)
    IN  IF template = PyNone
        THEN Raised(<<"'NoneType' object has no attribute 'replace'">>)
        ELSE Returned(Replace(template, "{input}", text))

\* lines 208-218
execute_prompt_node(properties, text) ==
    LET template == Get(properties, "template", <<"{input}">>)
        variables == Get(properties, "variables", <<"input">>)
    IN  IF Contains(variables, "input")
        THEN IF template = PyNone
             THEN Raised(<<"'NoneType' object has no attribute 'replace'">>)
             ELSE Returned(Replace(template, "{input}", text))
        ELSE Returned(template)

\* lines 242-247
execute_memory_node(properties, text) ==
    Returned(<<"Memory (">> \o Get(properties, "memory_type", <<"conversation_buffer">>)
             \o <<"): ">> \o text)

\* lines 249-254
execute_router_node(properties, text) == Returned(text)

\* lines 271-274
execute_validator_node(properties, text) == Returned(text)

\* lines 276-288
execute_webhook_node(properties, text, h) ==
    LET url == Get(properties, "url", <<>>)
    IN  IF url # <<>>
        THEN IF h = "ok" THEN Returned(ResponseText(text))
             ELSE Returned(<<"Webhook error for URL: ">> \o url)
        ELSE Returned(text)

\* an output handler that uses every non-empty template
execute_output_node_template_wins(properties, text) ==
    LET template == Get(properties, "template", <<"{input}">>)
    IN  IF template # <<>> /\ template # PyNone
        THEN Returned(Replace(template, "{input}", text))
        ELSE Returned(text)

\* lines 290-298
execute_output_node(properties, text) ==
    LET template == Get(properties, "template", <<"{input}">>)
    IN  IF template # <<>> /\ Contains(template, "{input}")
        THEN Returned(Replace(template, "{input}", text))
        ELSE Returned(text)

(***************************************************************************)
(* The calculator of _execute_tool_node (lines 224-234).  The text of a    *)
(* calculator is a sequence of characters: digits, the signs below, and    *)
(* tokens such as "rm" that stand for any other characters.  eval() is     *)
(* Python's: the operators below follow its grammar for the expressions    *)
(* this alphabet can spell.  An int is a fraction with den = 1; a float    *)
(* is an exact fraction marked float (rounding, infinities and the sign    *)
(* of zero are left out).                                                  *)
(***************************************************************************)
DigitChars == {ToString(d) : d \in 0..9}

DigitVal(c) == CHOOSE d \in 0..9 : ToString(d) = c

\* line 229: the character class of the pattern ^[\d\+\-\*\/$$$$\s\.]+$
CalcChars == DigitChars \cup {"+", "-", "*", "/", "$", " ", "."}

\* re.match(pattern, text) for a pattern ^[chars]+$
Matches(chars, text) ==
    text # <<>> /\ \A i \in 1..Len(text) : text[i] \in chars

Abs(n) == IF n < 0 THEN -n ELSE n

\* the number n / d (d > 0) in lowest terms
Num(n, d, float) ==
    LET g == Gcd(Abs(n), d) IN [num |-> n \div g, den |-> d \div g, float |-> float]

RECURSIVE Pow(_, _)
Pow(b, e) == IF e = 0 THEN 1 ELSE b * Pow(b, e - 1)

Computed(v) == [ok |-> TRUE, v |-> v]
SyntaxError == [ok |-> FALSE, err |-> "SyntaxError"]
ZeroDivisionError == [ok |-> FALSE, err |-> "ZeroDivisionError"]

\* a / b for b # 0
Quotient(a, b) ==
    IF b.num > 0 THEN Num(a.num * b.den, a.den * b.num, TRUE)
    ELSE Num(-(a.num * b.den), a.den * (-b.num), TRUE)

\* a ** b for a whole exponent; a fractional exponent gives an irrational
\* or complex result, which this model does not represent
Power(a, b) ==
    CASE b.den = 1 /\ b.num >= 0 ->
           Computed(Num(Pow(a.num, b.num), Pow(a.den, b.num), a.float \/ b.float))
      [] b.den = 1 /\ b.num < 0 /\ a.num = 0 -> ZeroDivisionError
      [] b.den = 1 /\ b.num < 0 /\ a.num # 0 ->
           Computed(Quotient(Num(1, 1, TRUE),
                             Num(Pow(a.num, -b.num), Pow(a.den, -b.num), TRUE)))

\* the binary operators of Python on int and float
Apply(op, a, b) ==
    CASE op = "+" ->
           Computed(Num(a.num * b.den + b.num * a.den, a.den * b.den,
                        a.float \/ b.float))
      [] op = "-" ->
           Computed(Num(a.num * b.den - b.num * a.den, a.den * b.den,
                        a.float \/ b.float))
      [] op = "*" ->
           Computed(Num(a.num * b.num, a.den * b.den, a.float \/ b.float))
      [] op = "/" ->
           IF b.num = 0 THEN ZeroDivisionError ELSE Computed(Quotient(a, b))
      [] op = "//" ->
           IF b.num = 0 THEN ZeroDivisionError
           ELSE LET q == Quotient(a, b)
                IN  Computed(Num(q.num \div q.den, 1, a.float \/ b.float))
      [] op = "**" -> Power(a, b)

\* the first position from i on that holds no digit
RECURSIVE RunEnd(_, _)
RunEnd(text, i) ==
    IF i <= Len(text) /\ text[i] \in DigitChars THEN RunEnd(text, i + 1) ELSE i

\* the value of the digits text[a..b-1], 0 when there are none
RECURSIVE DigitsValue(_, _, _)
DigitsValue(text, a, b) ==
    IF b <= a THEN 0 ELSE DigitsValue(text, a, b - 1) * 10 + DigitVal(text[b - 1])

Cons(tok, rest) ==
    IF rest.ok THEN [ok |-> TRUE, toks |-> <<tok>> \o rest.toks] ELSE rest

\* Python's tokenizer from position i: blanks are skipped, digits and a
\* point make a number, ** and // are one operator each, anything else
\* ('$' or a foreign token) is an error.  A whole number with a leading
\* zero must be zero.
\* the number token that starts at i, where e ends its whole part and f
\* its fraction (f = e when it has no point), followed by the tokens of
\* the rest
LexNumber(text, i, e, f, rest) ==
    IF f > e /\ e = i /\ f = e + 1 THEN SyntaxError
    ELSE IF f = e /\ e - i > 1 /\ text[i] = "0" /\ DigitsValue(text, i, e) # 0
    THEN SyntaxError
    ELSE Cons([k |-> "num",
               v |-> IF f > e
                     THEN Num(DigitsValue(text, i, e) * Pow(10, f - e - 1)
                                + DigitsValue(text, e + 1, f),
                              Pow(10, f - e - 1), TRUE)
                     ELSE Num(DigitsValue(text, i, e), 1, FALSE)],
              rest)

\* the end of the number whose whole part ends at e
NumberEnd(text, e) ==
    IF e <= Len(text) /\ text[e] = "." THEN RunEnd(text, e + 1) ELSE e

RECURSIVE Lex(_, _)
RECURSIVE LexFrom(_, _, _, _)

\* Python's tokenizer from position i: blanks are skipped, digits and a
\* point make a number, ** and // are one operator each, anything else
\* ('$' or a foreign token) is an error.  A whole number with a leading
\* zero must be zero.
Lex(text, i) ==
    IF i > Len(text) THEN [ok |-> TRUE, toks |-> <<>>]
    ELSE IF text[i] = " " THEN Lex(text, i + 1)
    ELSE IF text[i] \in DigitChars \cup {"."}
    THEN LexFrom(text, i, RunEnd(text, i), NumberEnd(text, RunEnd(text, i)))
    ELSE IF text[i] \in {"*", "/"} /\ i < Len(text) /\ text[i + 1] = text[i]
    THEN Cons([k |-> text[i] \o text[i]], Lex(text, i + 2))
    ELSE IF text[i] \in {"+", "-", "*", "/", "(", ")"}
    THEN Cons([k |-> text[i]], Lex(text, i + 1))
    ELSE SyntaxError

LexFrom(text, i, e, f) == LexNumber(text, i, e, f, Lex(text, f))

Parsed(v, rest) == [ok |-> TRUE, v |-> v, rest |-> rest]

IsTok(toks, ks) == toks # <<>> /\ Head(toks).k \in ks

\* the result r of an operator, with the tokens left after its operands
WithRest(r, rest) == IF r.ok THEN Parsed(r.v, rest) ELSE r

\* acc op x, where x is the parse of the right operand
Combine(op, acc, x) ==
    IF x.ok THEN WithRest(Apply(op, acc, x.v), x.rest) ELSE x

\* -f, where f is the parse of the operand
Negated(f) ==
    IF f.ok THEN Parsed(Num(-f.v.num, f.v.den, f.v.float), f.rest) ELSE f

\* the parenthesis that must close the parse e
Closed(e) ==
    IF ~e.ok THEN e
    ELSE IF IsTok(e.rest, {")"}) THEN Parsed(e.v, Tail(e.rest))
    ELSE SyntaxError

\* Python's expression grammar: expr, term, factor, power, atom
RECURSIVE ParseExpr(_)
RECURSIVE ParseExprRest(_, _)
RECURSIVE ExprMore(_)
RECURSIVE ParseTerm(_)
RECURSIVE ParseTermRest(_, _)
RECURSIVE TermMore(_)
RECURSIVE ParseFactor(_)
RECURSIVE ParsePower(_)
RECURSIVE Exponent(_)
RECURSIVE ParseAtom(_)

\* "()" is the empty tuple, which this model does not represent
ParseAtom(toks) ==
    CASE IsTok(toks, {"num"}) -> Parsed(Head(toks).v, Tail(toks))
      [] IsTok(toks, {"("}) /\ ~IsTok(Tail(toks), {")"}) ->
           Closed(ParseExpr(Tail(toks)))
      [] ~IsTok(toks, {"num", "("}) -> SyntaxError

\* the atom a, raised to the factor after ** when one follows
Exponent(a) ==
    IF ~a.ok THEN a
    ELSE IF IsTok(a.rest, {"**"})
    THEN Combine("**", a.v, ParseFactor(Tail(a.rest)))
    ELSE a

ParsePower(toks) == Exponent(ParseAtom(toks))

ParseFactor(toks) ==
    IF IsTok(toks, {"+"}) THEN ParseFactor(Tail(toks))
    ELSE IF IsTok(toks, {"-"}) THEN Negated(ParseFactor(Tail(toks)))
    ELSE ParsePower(toks)

ParseTermRest(acc, toks) ==
    IF IsTok(toks, {"*", "/", "//"})
    THEN TermMore(Combine(Head(toks).k, acc, ParseFactor(Tail(toks))))
    ELSE Parsed(acc, toks)

\* the term that starts with the value parsed in r
TermMore(r) == IF r.ok THEN ParseTermRest(r.v, r.rest) ELSE r

ParseTerm(toks) == TermMore(ParseFactor(toks))

ParseExprRest(acc, toks) ==
    IF IsTok(toks, {"+", "-"})
    THEN ExprMore(Combine(Head(toks).k, acc, ParseTerm(Tail(toks))))
    ELSE Parsed(acc, toks)

\* the expression that starts with the value parsed in r
ExprMore(r) == IF r.ok THEN ParseExprRest(r.v, r.rest) ELSE r

ParseExpr(toks) == ExprMore(ParseTerm(toks))

\* the parse p, which must have used every token
Whole(p) ==
    IF ~p.ok THEN p
    ELSE IF p.rest # <<>> THEN SyntaxError
    ELSE Computed(p.v)

\* the value of the tokens l
EvalTokens(l) == IF l.ok THEN Whole(ParseExpr(l.toks)) ELSE l

\* eval(text): the value of the expression, or the exception raised
Eval(text) == EvalTokens(Lex(text, 1))

\* the decimal digits of n >= 0, one character each
RECURSIVE IntDigits(_)
IntDigits(n) ==
    IF n < 10 THEN <<ToString(n)>> ELSE IntDigits(n \div 10) \o <<ToString(n % 10)>>

\* the digits after the point of r / d (r < d), for a fraction that ends
RECURSIVE FracDigits(_, _)
FracDigits(r, d) ==
    IF r = 0 THEN <<>>
    ELSE <<ToString((r * 10) \div d)>> \o FracDigits((r * 10) % d, d)

RECURSIVE Strip(_, _)
Strip(d, p) == IF d % p = 0 THEN Strip(d \div p, p) ELSE d

\* str(v): an int in decimal; a float in the shortest decimal form, which
\* is positional from 0.0001 up.  The text of a float whose decimal
\* expansion does not end, or lies below that, is left symbolic.
Str(v) ==
    LET sign == IF v.num < 0 THEN <<"-">> ELSE <<>>
        n == Abs(v.num)
    IN  IF ~v.float THEN sign \o IntDigits(n)
        ELSE IF Strip(Strip(v.den, 2), 5) = 1 /\ (n = 0 \/ n * 10000 >= v.den)
        THEN sign \o IntDigits(n \div v.den) \o <<".">>
             \o (IF n % v.den = 0 THEN <<"0">> ELSE FracDigits(n % v.den, v.den))
        ELSE <<"float(", ToString(v.num), "/", ToString(v.den), ")">>

\* lines 230-234: the text of the value, or of the except branch
Answer(r) == IF r.ok THEN Str(r.v) ELSE <<"Calculation error">>

\* lines 220-240; re.match(pattern, None) raises TypeError inside the try
execute_tool_node(properties, text) ==
    LET tool_type == Get(properties, "tool_type", <<"calculator">>)
    IN  IF tool_type = <<"calculator">>
        THEN IF text = PyNone THEN Returned(<<"Calculation error">>)
             ELSE IF Matches(CalcChars, text)
             THEN Returned(Answer(Eval(text)))
             ELSE Returned(<<"Invalid mathematical expression">>)
        ELSE IF tool_type = <<"web_search">>
        THEN Returned(<<"Web search results for: ">> \o text \o <<" (simulated)">>)
        ELSE Returned(<<"Tool ">> \o tool_type \o <<" executed with input: ">> \o text)

(***************************************************************************)
(* The parser handler (lines 256-269).  json.loads and json.dumps are      *)
(* Python's.  A JSON text is a sequence of characters and lexemes: the     *)
(* digits and signs of the calculator, brackets, braces, comma, colon and  *)
(* blank as characters, a word or a quoted string as one token.            *)
(***************************************************************************)
JsonWords == {"true", "false", "null", "NaN", "Infinity"}

\* the quoted strings of the model, in the form json.dumps writes them
JsonStrings == {"\"a\"", "\"b\""}

RECURSIVE SkipBlanks(_, _)
SkipBlanks(text, i) ==
    IF i <= Len(text) /\ text[i] = " " THEN SkipBlanks(text, i + 1) ELSE i

JSONDecodeError == [ok |-> FALSE]

Loaded(v, next) == [ok |-> TRUE, v |-> v, next |-> next]

\* the end of the whole part that starts at a: 0, or a run of digits
WholeEnd(text, a) == IF text[a] = "0" THEN a + 1 ELSE RunEnd(text, a)

\* the digits of the number text[a..f-1] as one integer, where e ends its
\* whole part; a point with no digit after it is not part of the number
NumberValue(text, a, e, f) ==
    IF f > e + 1
    THEN DigitsValue(text, a, e) * Pow(10, f - e - 1) + DigitsValue(text, e + 1, f)
    ELSE DigitsValue(text, a, e)

Signed(neg, n) == IF neg THEN -n ELSE n

\* The float -0.0, whose sign the fractions of this model do not carry,
\* is not represented.
LoadDigits(text, neg, a, e, f) ==
    CASE e = a -> JSONDecodeError
      [] e > a /\ f <= e + 1 ->
           Loaded([t |-> "num",
                   v |-> Num(Signed(neg, NumberValue(text, a, e, f)), 1, FALSE)], e)
      [] e > a /\ f > e + 1 /\ ~(neg /\ NumberValue(text, a, e, f) = 0) ->
           Loaded([t |-> "num",
                   v |-> Num(Signed(neg, NumberValue(text, a, e, f)),
                             Pow(10, f - e - 1), TRUE)], f)

LoadSigned(text, neg, a) ==
    LoadDigits(text, neg, a, WholeEnd(text, a), NumberEnd(text, WholeEnd(text, a)))

\* a number at position i: -?(0|[1-9]\d*)(\.\d+)?
LoadNumber(text, i) ==
    LoadSigned(text, text[i] = "-", IF text[i] = "-" THEN i + 1 ELSE i)

\* dict[k] = v: a key seen before keeps its place and takes the new value
Put(obj, k, v) ==
    IF Contains(obj.keys, k)
    THEN [obj EXCEPT !.vals[IndexOf(obj.keys, k)] = v]
    ELSE [obj EXCEPT !.keys = Append(@, k), !.vals = Append(@, v)]

RECURSIVE LoadValue(_, _)
RECURSIVE LoadArray(_, _)
RECURSIVE LoadItems(_, _, _)
RECURSIVE ItemLoaded(_, _, _)
RECURSIVE ItemsNext(_, _, _)
RECURSIVE LoadObject(_, _)
RECURSIVE LoadMembers(_, _, _)
RECURSIVE MemberColon(_, _, _, _)
RECURSIVE MemberLoaded(_, _, _, _)
RECURSIVE MembersNext(_, _, _)

\* the value that starts at position i (blanks before it already skipped)
LoadValue(text, i) ==
    IF i > Len(text) THEN JSONDecodeError
    ELSE IF text[i] \in JsonWords \cup JsonStrings
    THEN Loaded([t |-> "lit", lex |-> <<text[i]>>], i + 1)
    ELSE IF text[i] = "-" /\ i < Len(text) /\ text[i + 1] = "Infinity"
    THEN Loaded([t |-> "lit", lex |-> <<"-", "Infinity">>], i + 2)
    ELSE IF text[i] = "-" /\ i = Len(text) THEN JSONDecodeError
    ELSE IF text[i] \in DigitChars \cup {"-"} THEN LoadNumber(text, i)
    ELSE IF text[i] = "[" THEN LoadArray(text, SkipBlanks(text, i + 1))
    ELSE IF text[i] = "{" THEN LoadObject(text, SkipBlanks(text, i + 1))
    ELSE JSONDecodeError

\* the array whose first non-blank position after the bracket is j
LoadArray(text, j) ==
    IF j <= Len(text) /\ text[j] = "]"
    THEN Loaded([t |-> "arr", items |-> <<>>], j + 1)
    ELSE LoadItems(text, j, <<>>)

\* the items of an array from position i on, up to the closing bracket
LoadItems(text, i, acc) == ItemLoaded(text, acc, LoadValue(text, i))

\* the array after its item v
ItemLoaded(text, acc, v) ==
    IF v.ok THEN ItemsNext(text, Append(acc, v.v), SkipBlanks(text, v.next))
    ELSE v

\* the array from the position j after an item
ItemsNext(text, items, j) ==
    IF j > Len(text) THEN JSONDecodeError
    ELSE IF text[j] = "," THEN LoadItems(text, SkipBlanks(text, j + 1), items)
    ELSE IF text[j] = "]" THEN Loaded([t |-> "arr", items |-> items], j + 1)
    ELSE JSONDecodeError

\* the object whose first non-blank position after the brace is j
LoadObject(text, j) ==
    IF j <= Len(text) /\ text[j] = "}"
    THEN Loaded([t |-> "obj", keys |-> <<>>, vals |-> <<>>], j + 1)
    ELSE LoadMembers(text, j, [t |-> "obj", keys |-> <<>>, vals |-> <<>>])

\* the members of an object from position i on, up to the closing brace
LoadMembers(text, i, obj) ==
    IF i > Len(text) \/ text[i] \notin JsonStrings THEN JSONDecodeError
    ELSE MemberColon(text, i, obj, SkipBlanks(text, i + 1))

\* the member with key text[i], whose colon must be at c
MemberColon(text, i, obj, c) ==
    IF c > Len(text) \/ text[c] # ":" THEN JSONDecodeError
    ELSE MemberLoaded(text, i, obj, LoadValue(text, SkipBlanks(text, c + 1)))

\* the object after the member with key text[i] and value v
MemberLoaded(text, i, obj, v) ==
    IF v.ok THEN MembersNext(text, Put(obj, text[i], v.v), SkipBlanks(text, v.next))
    ELSE v

\* the object from the position j after a member
MembersNext(text, obj, j) ==
    IF j > Len(text) THEN JSONDecodeError
    ELSE IF text[j] = "," THEN LoadMembers(text, SkipBlanks(text, j + 1), obj)
    ELSE IF text[j] = "}" THEN Loaded(obj, j + 1)
    ELSE JSONDecodeError

\* the value v, which must be all of the text but blanks
Sole(text, v) ==
    IF ~v.ok THEN v
    ELSE IF SkipBlanks(text, v.next) <= Len(text) THEN JSONDecodeError
    ELSE v

\* json.loads(text): one value between blanks and nothing after it
loads(text) == Sole(text, LoadValue(text, SkipBlanks(text, 1)))

Indent(depth) == [i \in 1..(2 * depth) |-> " "]

RECURSIVE dumps(_, _)
RECURSIVE DumpItems(_, _, _)
RECURSIVE DumpMembers(_, _, _)

\* json.dumps(v, indent=2), at nesting depth `depth`
dumps(v, depth) ==
    CASE v.t = "num" -> Str(v.v)
      [] v.t = "lit" -> v.lex
      [] v.t = "arr" ->
           IF v.items = <<>> THEN <<"[", "]">>
           ELSE <<"[", "\n">> \o DumpItems(v.items, 1, depth + 1)
                \o <<"\n">> \o Indent(depth) \o <<"]">>
      [] v.t = "obj" ->
           IF v.keys = <<>> THEN <<"{", "}">>
           ELSE <<"{", "\n">> \o DumpMembers(v, 1, depth + 1)
                \o <<"\n">> \o Indent(depth) \o <<"}">>

DumpItems(items, i, depth) ==
    Indent(depth) \o dumps(items[i], depth)
    \o (IF i < Len(items) THEN <<",", "\n">> \o DumpItems(items, i + 1, depth)
        ELSE <<>>)

DumpMembers(obj, i, depth) ==
    Indent(depth) \o <<obj.keys[i], ":", " ">> \o dumps(obj.vals[i], depth)
    \o (IF i < Len(obj.keys) THEN <<",", "\n">> \o DumpMembers(obj, i + 1, depth)
        ELSE <<>>)

\* lines 264-267: the parsed text written again, or the text itself in
\* the except branch
Formatted(text, l) == IF l.ok THEN dumps(l.v, 0) ELSE text

\* a parser that does not look at parser_type
execute_parser_node_any_type(properties, text) ==
    IF text = PyNone THEN Returned(text)
    ELSE Returned(Formatted(text, loads(text)))

\* lines 256-269; json.loads(None) raises TypeError inside the try
execute_parser_node(properties, text) ==
    LET parser_type == Get(properties, "parser_type", <<"json">>)
    IN  IF parser_type = <<"json">>
        THEN IF text = PyNone THEN Returned(text)
             ELSE Returned(Formatted(text, loads(text)))
        ELSE Returned(text)

\* the types _execute_node has a branch for (lines 144-172)
NodeTypes == {"input", "llm", "prompt", "tool", "memory", "router", "parser",
              "validator", "webhook", "output"}

\* lines 143-176: the dispatch inside the try
Dispatch(node_type, properties, text, c, h) ==
    CASE node_type = "input" -> Returned(text)
      [] node_type = "llm" -> execute_llm_node(properties, text, c)
      [] node_type = "prompt" -> execute_prompt_node(properties, text)
      [] node_type = "tool" -> execute_tool_node(properties, text)
      [] node_type = "memory" -> execute_memory_node(properties, text)
      [] node_type = "router" -> execute_router_node(properties, text)
      [] node_type = "parser" -> execute_parser_node(properties, text)
      [] node_type = "validator" -> execute_validator_node(properties, text)
      [] node_type = "webhook" -> execute_webhook_node(properties, text, h)
      [] node_type = "output" -> execute_output_node(properties, text)
      [] node_type \notin NodeTypes -> Returned(text)

\* a dispatch layer without the except clause of lines 178-180
execute_node_uncontained(node, text, c, h) ==
    IF "type" \notin DOMAIN node THEN Raised(KeyErrorStr("type"))
    ELSE Dispatch(node.type, Get(node, "properties", <<>>), text, c, h)

\* lines 138-180: node['type'] is read outside the try; whatever a handler
\* raises becomes the string "Error in <type>: <message>"
execute_node(node, text, c, h) ==
    IF "type" \notin DOMAIN node THEN Raised(KeyErrorStr("type"))
    ELSE LET r == Dispatch(node.type, Get(node, "properties", <<>>), text, c, h)
         IN  IF r.raised
             THEN Returned(<<"Error in ", node.type, ": ">> \o r.error)
             ELSE r

(***************************************************************************)
(* _validate_flow (lines 65-77)                                            *)
(***************************************************************************)

\* any(node['type'] == t for node in nodes): stops at the first match, and
\* raises KeyError at a node without a 'type' key met before it
RECURSIVE AnyType(_, _, _)
AnyType(ns, t, i) ==
    IF i > Len(ns) THEN Returned(FALSE)
    ELSE IF "type" \notin DOMAIN ns[i] THEN Raised(KeyErrorStr("type"))
    ELSE IF ns[i].type = t THEN Returned(TRUE)
    ELSE AnyType(ns, t, i + 1)

\* a validator that also wants a connection
validate_flow_connected(ns, conns) ==
    IF ns = <<>> \/ conns = <<>> THEN Returned(FALSE)
    ELSE LET has_input == AnyType(ns, "input", 1)
             has_output == AnyType(ns, "output", 1)
         IN  IF has_input.raised THEN has_input
             ELSE IF has_output.raised THEN has_output
             ELSE Returned(has_input.value /\ has_output.value)

\* a validator with `or` for `and`
validate_flow_either(ns, conns) ==
    IF ns = <<>> THEN Returned(FALSE)
    ELSE LET has_input == AnyType(ns, "input", 1)
             has_output == AnyType(ns, "output", 1)
         IN  IF has_input.raised THEN has_input
             ELSE IF has_output.raised THEN has_output
             ELSE Returned(has_input.value \/ has_output.value)

\* lines 65-77
validate_flow(ns, conns) ==
    IF ns = <<>> THEN Returned(FALSE)
    ELSE LET has_input == AnyType(ns, "input", 1)
             has_output == AnyType(ns, "output", 1)
         IN  IF has_input.raised THEN has_input
             ELSE IF has_output.raised THEN has_output
             ELSE Returned(has_input.value /\ has_output.value)

(***************************************************************************)
(* execute_flow (lines 20-63) and _execute_sequential (lines 79-96)        *)
(***************************************************************************)
InvalidFlow == <<"Invalid flow configuration">>

Success(out, t) ==
    [success |-> TRUE, output |-> out, response_time |-> t,
     intermediate_results |-> <<>>]

\* next((n for n in nodes if n['id'] == node_id), None)
Lookup(ns, node_id) ==
    LET hits == {i \in 1..Len(ns) : ns[i].id = node_id}
    IN  IF hits = {} THEN [found |-> FALSE]
        ELSE [found |-> TRUE, node |-> ns[CHOOSE i \in hits : \A j \in hits : i <= j]]

\* lines 40-46; _execute_parallel (98-102) and _execute_conditional
\* (104-108) do nothing but call _execute_sequential with their arguments
Strategy(m) ==
    IF m = "sequential" THEN "_execute_sequential"
    ELSE IF m = "parallel" THEN "_execute_parallel"
    ELSE "_execute_conditional"

\* an execute_flow that refuses a mode it does not know
ValidateKnownModes ==
    /\ pc = "call"
    /\ LET v == validate_flow(nodes, connections) IN
         IF v.raised THEN Raise(v.error) /\ strategy' = strategy
         ELSE IF ~v.value
         THEN /\ pc' = "done"
              /\ \E t \in Elapsed : ret' = Failure(InvalidFlow, t)
              /\ UNCHANGED <<exc, strategy>>
         ELSE IF mode \notin {"sequential", "parallel", "conditional"}
         THEN /\ pc' = "done"
              /\ \E t \in Elapsed : ret' = Failure(<<"Unknown mode">>, t)
              /\ UNCHANGED <<exc, strategy>>
         ELSE /\ pc' = "order"
              /\ strategy' = Strategy(mode)
              /\ UNCHANGED <<exc, ret>>
    /\ UNCHANGED others
    /\ UNCHANGED <<nodes, connections, input_data, mode, client, http, caller,
                   incoming, queue, result, execution_order, idx,
                   current_data, trace, callNo, prev>>

\* an execute_flow that validates but runs the flow all the same and
\* reports the rejection only on return
ValidateLate ==
    /\ pc = "call"
    /\ LET v == validate_flow(nodes, connections) IN
         IF v.raised THEN Raise(v.error) /\ strategy' = strategy
         ELSE /\ pc' = "order"
              /\ strategy' = Strategy(mode)
              /\ UNCHANGED <<exc, ret>>
    /\ UNCHANGED others
    /\ UNCHANGED <<nodes, connections, input_data, mode, client, http, caller,
                   incoming, queue, result, execution_order, idx,
                   current_data, trace, callNo, prev>>

\* lines 29-46
Validate ==
    /\ pc = "call"
    /\ LET v == validate_flow(nodes, connections) IN
         IF v.raised THEN Raise(v.error) /\ strategy' = strategy
         ELSE IF ~v.value
         THEN /\ pc' = "done"
              /\ \E t \in Elapsed : ret' = Failure(InvalidFlow, t)
              /\ UNCHANGED <<exc, strategy>>
         ELSE /\ pc' = "order"
              /\ strategy' = Strategy(mode)
              /\ UNCHANGED <<exc, ret>>
    /\ UNCHANGED others
    /\ UNCHANGED <<nodes, connections, input_data, mode, client, http, caller,
                   incoming, queue, result, execution_order, idx,
                   current_data, trace, callNo, prev>>

\* a loop over the nodes list instead of the scheduler's order
ExecStartListOrder ==
    /\ pc = "loop"
    /\ queue = <<>>
    /\ caller = "execute_flow"
    /\ execution_order' = node_ids
    /\ current_data' = input_data
    /\ idx' = 1
    /\ pc' = "nodes"
    /\ UNCHANGED others
    /\ UNCHANGED <<nodes, connections, input_data, mode, strategy, client, http, caller,
                   incoming, queue, result, exc, trace, ret, callNo, prev>>

\* a loop that starts from None instead of the input
ExecStartFromNone ==
    /\ pc = "loop"
    /\ queue = <<>>
    /\ caller = "execute_flow"
    /\ execution_order' = result
    /\ current_data' = PyNone
    /\ idx' = 1
    /\ pc' = "nodes"
    /\ UNCHANGED others
    /\ UNCHANGED <<nodes, connections, input_data, mode, strategy, client, http, caller,
                   incoming, queue, result, exc, trace, ret, callNo, prev>>

\* lines 85-87: the scheduler has returned
ExecStart ==
    /\ pc = "loop"
    /\ queue = <<>>
    /\ caller = "execute_flow"
    /\ execution_order' = result
    /\ current_data' = input_data
    /\ idx' = 1
    /\ pc' = "nodes"
    /\ UNCHANGED others
    /\ UNCHANGED <<nodes, connections, input_data, mode, strategy, client, http, caller,
                   incoming, queue, result, exc, trace, ret, callNo, prev>>

\* which external collaborator the node calls
CallsClient(node) == "type" \in DOMAIN node /\ node.type = "llm"
CallsHttp(node) ==
    /\ "type" \in DOMAIN node /\ node.type = "webhook"
    /\ Get(Get(node, "properties", <<>>), "url", <<>>) # <<>>

\* a loop with a cancellation point: it looks at agent_running before each
\* node and leaves the loop when the flag has been cleared during the run
ExecNodeCancellable ==
    /\ pc = "nodes"
    /\ idx <= Len(execution_order)
    /\ IF app_pc = "executing" /\ ~agent_running
       THEN /\ idx' = Len(execution_order) + 1
            /\ UNCHANGED <<pc, current_data, trace, client, http, exc, ret>>
       ELSE LET l == Lookup(nodes, execution_order[idx]) IN
              IF ~l.found
              THEN /\ idx' = idx + 1
                   /\ UNCHANGED <<pc, current_data, trace, client, http, exc, ret>>
              ELSE \E c \in (IF CallsClient(l.node) /\ client = "unset"
                             THEN {"ok", "fail"} ELSE {client}) :
                   \E h \in (IF CallsHttp(l.node) /\ http = "unset"
                             THEN {"ok", "fail"} ELSE {http}) :
                     LET r == execute_node(l.node, current_data, c, h) IN
                       /\ client' = c
                       /\ http' = h
                       /\ IF r.raised
                          THEN /\ Raise(r.error)
                               /\ UNCHANGED <<idx, current_data, trace>>
                          ELSE /\ current_data' = r.value
                               /\ trace' = Append(trace,
                                     [node |-> l.node.id, input |-> current_data,
                                      output |-> r.value])
                               /\ idx' = idx + 1
                               /\ UNCHANGED <<pc, exc, ret>>
    /\ UNCHANGED others
    /\ UNCHANGED <<nodes, connections, input_data, mode, strategy, caller, incoming, queue,
                   result, execution_order, callNo, prev>>

\* lines 89-94: one iteration of `for node_id in execution_order`
ExecNode ==
    /\ pc = "nodes"
    /\ idx <= Len(execution_order)
    /\ LET l == Lookup(nodes, execution_order[idx]) IN
         IF ~l.found
         THEN /\ idx' = idx + 1
              /\ UNCHANGED <<pc, current_data, trace, client, http, exc, ret>>
         ELSE \E c \in (IF CallsClient(l.node) /\ client = "unset"
                        THEN {"ok", "fail"} ELSE {client}) :
              \E h \in (IF CallsHttp(l.node) /\ http = "unset"
                        THEN {"ok", "fail"} ELSE {http}) :
                LET r == execute_node(l.node, current_data, c, h) IN
                  /\ client' = c
                  /\ http' = h
                  /\ IF r.raised
                     THEN /\ Raise(r.error)
                          /\ UNCHANGED <<idx, current_data, trace>>
                     ELSE /\ current_data' = r.value
                          /\ trace' = Append(trace,
                                [node |-> l.node.id, input |-> current_data,
                                 output |-> r.value])
                          /\ idx' = idx + 1
                          /\ UNCHANGED <<pc, exc, ret>>
    /\ UNCHANGED others
    /\ UNCHANGED <<nodes, connections, input_data, mode, strategy, caller, incoming, queue,
                   result, execution_order, callNo, prev>>

\* lines 96 and 48-55
Return ==
    /\ pc = "nodes"
    /\ idx > Len(execution_order)
    /\ pc' = "done"
    /\ \E t \in Elapsed : ret' = Success(current_data, t)
    /\ UNCHANGED others
    /\ UNCHANGED <<nodes, connections, input_data, mode, strategy, client, http, caller,
                   incoming, queue, result, exc, execution_order, idx,
                   current_data, trace, callNo, prev>>

\* the caller calls execute_flow again with the same canvas_data, the same
\* input and the same client; every local of the first call is gone
CallAgain ==
    /\ pc = "done"
    /\ callNo = 1
    /\ prev' = [success |-> ret.success,
                text |-> IF ret.success THEN ret.output ELSE ret.error,
                order |-> execution_order]
    /\ callNo' = 2
    /\ pc' = "call"
    /\ incoming' = <<>>
    /\ queue' = <<>>
    /\ result' = <<>>
    /\ execution_order' = <<>>
    /\ idx' = 0
    /\ current_data' = <<>>
    /\ trace' = <<>>
    /\ ret' = NoRet
    /\ strategy' = ""
    /\ UNCHANGED others
    /\ UNCHANGED <<nodes, connections, input_data, mode, client, http, caller, exc>>

(***************************************************************************)
(* Flows: up to MaxFlowNodes nodes, each of one of the kinds below, and up *)
(* to MaxFlowConns connections over the listed ids and the unlisted "n0"   *)
(***************************************************************************)
Kinds == {"input", "output", "prompt", "prompt-null", "llm", "webhook",
          "custom", "untyped"}

NodeOf(kind, id) ==
    CASE kind = "prompt" ->
           [id |-> id, type |-> "prompt",
            properties |-> [template |-> <<"Echo: ", "{input}">>,
                            variables |-> <<"input">>]]
      [] kind = "prompt-null" ->
           [id |-> id, type |-> "prompt", properties |-> [template |-> PyNone]]
      [] kind = "webhook" ->
           [id |-> id, type |-> "webhook",
            properties |-> [url |-> <<"http://hook">>]]
      [] kind = "untyped" -> [id |-> id, properties |-> <<>>]
      [] OTHER -> [id |-> id, type |-> kind, properties |-> <<>>]

Inputs == {<<"hi">>}

Modes == {"sequential", "parallel", "conditional"}

Init ==
    /\ \E k \in 0..MaxFlowNodes :
         /\ \E kinds \in [1..k -> Kinds] :
              nodes = [i \in 1..k |-> NodeOf(kinds[i], Id(i))]
         /\ \E m \in 0..MaxFlowConns :
              \E c \in [1..m -> Endpoints(k)] : connections = ConnsOf(c)
    /\ input_data \in Inputs
    /\ mode \in Modes
    /\ strategy = ""
    /\ client = "unset"
    /\ http = "unset"
    /\ caller = "execute_flow"
    /\ pc = "call"
    /\ incoming = <<>>
    /\ queue = <<>>
    /\ result = <<>>
    /\ exc = NoExc
    /\ execution_order = <<>>
    /\ idx = 0
    /\ current_data = <<>>
    /\ trace = <<>>
    /\ ret = NoRet
    /\ callNo = 1
    /\ prev = NoRet
    /\ OthersIdle

Next ==
    \/ Validate
    \/ SchedStart
    \/ SchedLoop
    \/ ExecStart
    \/ ExecNode
    \/ Return

Spec == Init /\ [][Next]_vars

\* the same, with a second call after the first has returned
NextAgain == Next \/ CallAgain

SpecAgain == Init /\ [][NextAgain]_vars

(***************************************************************************)
(* The same flow executed a second time under another mode.  The first     *)
(* call is made with 'sequential'; the second with 'parallel',             *)
(* 'conditional' or the capitalised 'Sequential' of the selectbox          *)
(* (src/app.py, lines 1311-1315).                                          *)
(***************************************************************************)
OtherModes == {"parallel", "conditional", "Sequential"}

CallOtherMode ==
    /\ pc = "done"
    /\ callNo = 1
    /\ mode' \in OtherModes
    /\ prev' = [mode |-> mode,
                success |-> ret.success,
                text |-> IF ret.success THEN ret.output ELSE ret.error,
                order |-> execution_order,
                ran |-> [i \in 1..Len(trace) |-> trace[i].node]]
    /\ callNo' = 2
    /\ pc' = "call"
    /\ incoming' = <<>>
    /\ queue' = <<>>
    /\ result' = <<>>
    /\ execution_order' = <<>>
    /\ idx' = 0
    /\ current_data' = <<>>
    /\ trace' = <<>>
    /\ ret' = NoRet
    /\ strategy' = ""
    /\ UNCHANGED others
    /\ UNCHANGED <<nodes, connections, input_data, client, http, caller, exc>>

InitModes == Init /\ mode = "sequential"

NextModes == Next \/ CallOtherMode

SpecModes == InitModes /\ [][NextModes]_vars

(***************************************************************************)
(* The executor at rest, for the specifications of the other components    *)
(***************************************************************************)
ExecutorIdle ==
    /\ mode = "sequential"
    /\ strategy = ""
    /\ client = "unset"
    /\ http = "unset"
    /\ caller = "direct"
    /\ incoming = <<>>
    /\ queue = <<>>
    /\ result = <<>>
    /\ exc = NoExc
    /\ execution_order = <<>>
    /\ idx = 0
    /\ current_data = <<>>
    /\ trace = <<>>
    /\ ret = NoRet
    /\ prev = NoRet

(***************************************************************************)
(* ExecutionStats.add_execution called on the stats of a session that has  *)
(* recorded w executions before, for w = 0 and w around the history cap    *)
(***************************************************************************)
MaxRecordings == 4

\* response times, in ticks
Ticks == {1, 3}

\* the i-th execution of the session's past
Past(i) ==
    [timestamp |-> i, success |-> i % 3 # 0, response_time |-> 1 + (i % 2),
     error |-> IF i % 3 # 0 THEN PyNone ELSE InvalidFlow]

\* self after add_execution has been called with rs[i], .., rs[j], in
\* this order (the range is split in halves and self is looked at first,
\* to keep the evaluation shallow)
RECURSIVE ReplayRange(_, _, _, _)
ReplayRange(self, rs, i, j) ==
    IF self.total_runs < 0 \/ i > j THEN self
    ELSE IF i = j
    THEN add_execution(self, rs[i].success, rs[i].response_time, rs[i].error,
                       rs[i].timestamp)
    ELSE ReplayRange(ReplayRange(self, rs, i, (i + j) \div 2),
                     rs, (i + j) \div 2 + 1, j)

\* the stats of a session in which the executions rs have been recorded
Replay(rs) == ReplayRange(ExecutionStats, rs, 1, Len(rs))

Warmup == {0, HistoryCap - 2, HistoryCap + 1}

InitStats ==
    /\ \E w \in Warmup :
         LET rs == [i \in 1..w |-> Past(i)] IN
           /\ recorded = rs
           /\ stats = Replay(rs)
           /\ now = w
    /\ submitted = NoSubmission
    /\ SessionIdle
    /\ nodes = <<>>
    /\ connections = <<>>
    /\ pc = "stats"
    /\ callNo = 0
    /\ input_data = <<>>
    /\ ExecutorIdle

\* one call of add_execution(success, response_time, error)
AddExecution ==
    /\ pc = "stats"
    /\ callNo < MaxRecordings
    /\ \E success \in BOOLEAN : \E response_time \in Ticks :
         LET error == IF success THEN PyNone ELSE InvalidFlow IN
           /\ now' = now + 1
           /\ stats' = add_execution(stats, success, response_time, error, now + 1)
           /\ recorded' = Append(recorded,
                             [timestamp |-> now + 1, success |-> success,
                              response_time |-> response_time, error |-> error])
    /\ callNo' = callNo + 1
    /\ UNCHANGED <<nodes, connections, input_data, mode, strategy, client, http, caller,
                   pc, incoming, queue, result, exc, execution_order, idx,
                   current_data, trace, ret, prev, submitted>>
    /\ UNCHANGED session

NextStats == AddExecution

SpecStats == InitStats /\ [][NextStats]_vars

(***************************************************************************)
(* The application's own update of the stats after a run                   *)
(* (src/app.py, _execute_agent_flow, lines 1493-1518)                      *)
(***************************************************************************)

\* lines 1494-1518: the counters and the average; nothing else is written
update_statistics(self, res) ==
    LET total == self.total_runs + 1
        ok == Get(res, "success", FALSE)
    IN  [self EXCEPT
           !.total_runs = total,
           !.successful_runs = IF ok THEN @ + 1 ELSE @,
           !.failed_runs = IF ok THEN @ ELSE @ + 1,
           !.avg_response_time =
               RunningMean(@, total, Get(res, "response_time", 0))]

\* what execute_flow returns to the application
FlowResults ==
    {Success(<<"out">>, t) : t \in Elapsed} \cup {Failure(InvalidFlow, t) : t \in Elapsed}

InitApp ==
    /\ OthersIdle
    /\ nodes = <<>>
    /\ connections = <<>>
    /\ pc = "app"
    /\ callNo = 0
    /\ input_data = <<>>
    /\ ExecutorIdle

\* lines 1484-1518: a run has returned res and the stats are updated
UpdateStatistics ==
    /\ pc = "app"
    /\ callNo < MaxRecordings
    /\ \E res \in FlowResults :
         /\ now' = now + 1
         /\ stats' = update_statistics(stats, res)
         /\ recorded' = Append(recorded,
                           [timestamp |-> now + 1, success |-> res.success,
                            response_time |-> res.response_time,
                            error |-> IF res.success THEN PyNone ELSE res.error])
    /\ callNo' = callNo + 1
    /\ UNCHANGED <<nodes, connections, input_data, mode, strategy, client, http, caller,
                   pc, incoming, queue, result, exc, execution_order, idx,
                   current_data, trace, ret, prev, submitted>>
    /\ UNCHANGED session

NextApp == UpdateStatistics

SpecApp == InitApp /\ [][NextApp]_vars

(***************************************************************************)
(* The connection list of a canvas, grown through validate_connection:     *)
(* a pair of node ids is submitted and appended when the check accepts it  *)
(***************************************************************************)
MaxCanvasNodes == 3
MaxCanvasConns == 3

InitCanvas ==
    /\ OthersIdle
    /\ nodes = [i \in 1..MaxCanvasNodes |-> PlainNode(i)]
    /\ connections = <<>>
    /\ pc = "canvas"
    /\ callNo = 0
    /\ input_data = <<>>
    /\ ExecutorIdle

SubmitConnection ==
    /\ pc = "canvas"
    /\ Len(connections) < MaxCanvasConns
    /\ \E from_node \in Range(node_ids) : \E to_node \in Range(node_ids) :
         LET ok == validate_connection(from_node, to_node, connections) IN
           /\ submitted' = [from |-> from_node, to |-> to_node,
                            accepted |-> ok, before |-> connections]
           /\ connections' = IF ok
                             THEN Append(connections,
                                         [from |-> from_node, to |-> to_node])
                             ELSE connections
    /\ UNCHANGED <<nodes, input_data, mode, strategy, client, http, caller,
                   pc, incoming, queue, result, exc, execution_order, idx,
                   current_data, trace, ret, callNo, prev, stats, recorded, now>>
    /\ UNCHANGED session

NextCanvas == SubmitConnection

SpecCanvas == InitCanvas /\ [][NextCanvas]_vars

(***************************************************************************)
(* One node executed on its own: _execute_node called with a node and a    *)
(* text.  The texts are strings; None is not among them.                   *)
(***************************************************************************)
Handled(type, properties) == [id |-> Id(1), type |-> type, properties |-> properties]

PromptTemplates ==
    {<<"Hello ", "{input}", "!">>, <<"static">>, <<>>, <<"{input}", " and ", "{input}">>}

PromptVariables == {<<"input">>, <<"name">>, <<"name", "input">>, <<>>}

PromptProperties ==
    {<<>>}
    \cup {[template |-> t] : t \in PromptTemplates}
    \cup {[variables |-> v] : v \in PromptVariables}
    \cup {[template |-> t, variables |-> v] :
                t \in PromptTemplates, v \in PromptVariables}

OutputTemplates == {<<"Result: ", "{input}">>, <<"done">>, <<>>, PyNone}

OutputFormats == {<<"text">>, <<"json">>, <<"markdown">>}

OutputProperties ==
    {<<>>}
    \cup {[template |-> t] : t \in OutputTemplates}
    \cup {[format |-> f] : f \in OutputFormats}
    \cup {[template |-> t, format |-> f] :
                t \in OutputTemplates, f \in OutputFormats}

ToolProperties ==
    {<<>>} \cup {[tool_type |-> t] :
                    t \in {<<"calculator">>, <<"web_search">>, <<"translate">>}}

ParserProperties ==
    {<<>>} \cup {[parser_type |-> t] : t \in {<<"json">>, <<"xml">>, <<>>}}

WebhookProperties ==
    {<<>>, [url |-> <<>>], [url |-> <<"http://hook">>],
     [method |-> <<"POST">>]}

\* properties of the handlers that read none, or none that matters
OtherProperties ==
    {<<>>, [routing_type |-> <<"keyword">>], [url |-> <<"http://hook">>],
     [template |-> <<"Hello ", "{input}", "!">>]}

\* types _execute_node has no branch for
UnknownTypes == {"custom", "Input", ""}

HandlerNodes ==
    {Handled("prompt", p) : p \in PromptProperties}
    \cup {Handled("output", p) : p \in OutputProperties}
    \cup {Handled("tool", p) : p \in ToolProperties}
    \cup {Handled("parser", p) : p \in ParserProperties}
    \cup {Handled("webhook", p) : p \in WebhookProperties}
    \cup {Handled(t, p) : t \in {"input", "router", "validator", "llm", "memory"}
                                 \cup UnknownTypes,
                          p \in OtherProperties}
    \cup {NodeOf("untyped", Id(1))}

\* expressions for the calculator, character by character
CalcTexts ==
    {<<"2", " ", "+", " ", "3", " ", "*", " ", "4">>,
     <<"(", "2", "+", "3", ")", "*", "4">>,
     <<"rm", " ", "-", "rf", " ", "/">>,
     <<"2", "$">>,
     <<"1", "/", "0">>,
     <<"7", "/", "2">>,
     <<"2", "+">>,
     <<"2", "*", "*", "3">>,
     <<"0", "7">>,
     <<" ">>,
     <<" ", "4", "2", " ">>,
     <<"1", "2">>,
     <<"1", ".", "5", "0">>}

JsonTexts ==
    {<<"[", "1", ",", "2", "]">>,
     <<"{", "\"a\"", ":", "1", "}">>,
     <<"{", "\"a\"", ":", " ", "1">>,
     <<"[", "1", ",", "]">>,
     <<"true">>,
     <<"\"a\"">>,
     <<"{", "}">>}

Texts ==
    {<<>>, <<"World">>, <<"hi">>, <<"{input}">>, <<"What is ", "{input}", "?">>}
    \cup CalcTexts \cup JsonTexts

InitNode ==
    /\ OthersIdle
    /\ \E node \in HandlerNodes : nodes = <<node>>
    /\ connections = <<>>
    /\ input_data \in Texts
    /\ pc = "node"
    /\ callNo = 0
    /\ ExecutorIdle

\* lines 138-180: _execute_node(node, input_data, client)
CallNode ==
    /\ pc = "node"
    /\ \E c \in (IF CallsClient(nodes[1]) THEN {"ok", "fail"} ELSE {client}) :
       \E h \in (IF CallsHttp(nodes[1]) THEN {"ok", "fail"} ELSE {http}) :
         LET r == execute_node(nodes[1], input_data, c, h) IN
           /\ client' = c
           /\ http' = h
           /\ IF r.raised
              THEN /\ Raise(r.error)
                   /\ UNCHANGED <<current_data, trace>>
              ELSE /\ pc' = "returned"
                   /\ current_data' = r.value
                   /\ trace' = <<[node |-> nodes[1].id, input |-> input_data,
                                  output |-> r.value]>>
                   /\ UNCHANGED <<exc, ret>>
    /\ UNCHANGED others
    /\ UNCHANGED <<nodes, connections, input_data, mode, strategy, caller,
                   incoming, queue, result, execution_order, idx, callNo, prev>>

NextNode == CallNode

SpecNode == InitNode /\ [][NextNode]_vars

(***************************************************************************)
(* generate_node_id (src/utils/helpers.py, lines 14-17), called any number *)
(* of times.  A node type is a sequence of characters.  The clock `now`    *)
(* counts half milliseconds, so that two readings of time.time() can       *)
(* differ and still fall in the same millisecond.                          *)
(***************************************************************************)
MaxIds == 3

\* str.lower() on one character
LowerChar(c) ==
    CASE c = "L" -> "l"
      [] c = "M" -> "m"
      [] c = "T" -> "t"
      [] c = "O" -> "o"
      [] OTHER -> c

\* str.lower()
Lower(s) == [i \in 1..Len(s) |-> LowerChar(s[i])]

\* line 16: int(time.time() * 1000) for a clock reading t
Millis(t) == t \div 2

\* lines 16-17: f"{node_type.lower()}_{timestamp}"
generate_node_id(node_type, t) ==
    Lower(node_type) \o <<"_">> \o IntDigits(Millis(t))

IdTypes == {<<"l", "l", "m">>, <<"L", "L", "M">>, <<"t", "o", "o", "l">>}

\* how far the clock moves between two calls, in half milliseconds
ClockSteps == {0, 1, 2}

InitIds ==
    /\ now \in {0, 19}
    /\ stats = ExecutionStats
    /\ recorded = <<>>
    /\ submitted = NoSubmission
    /\ SessionIdle
    /\ nodes = <<>>
    /\ connections = <<>>
    /\ pc = "ids"
    /\ callNo = 0
    /\ input_data = <<>>
    /\ ExecutorIdle

\* one call of generate_node_id(node_type)
GenerateId ==
    /\ pc = "ids"
    /\ Len(generated) < MaxIds
    /\ \E node_type \in IdTypes : \E d \in ClockSteps :
         /\ now' = now + d
         /\ generated' = Append(generated, generate_node_id(node_type, now + d))
    /\ UNCHANGED <<nodes, connections, input_data, mode, strategy, client, http, caller,
                   pc, incoming, queue, result, exc, execution_order, idx,
                   current_data, trace, ret, callNo, prev, stats, recorded,
                   submitted, agent_running, execution_log, app_pc, stopped>>

NextIds == GenerateId

SpecIds == InitIds /\ [][NextIds]_vars

(***************************************************************************)
(* One press of Execute Agent: _execute_agent_flow (src/app.py, lines      *)
(* 1471-1533) around one execute_flow call, and the Stop Execution button  *)
(* (lines 1326-1327), which may be pressed at any moment.                  *)
(***************************************************************************)
\* the node kinds of the flows that are run
RunKinds == {"input", "output", "llm", "untyped"}

\* lines 1311-1315: the modes of the selectbox
RunModes == {"Sequential", "Parallel", "Conditional"}

\* where an exception is raised after execute_flow has returned: nowhere,
\* at the update of the statistics, or at the display of the result
Faults == {"none", "statistics", "display"}

InitRun ==
    /\ \E k \in 0..MaxFlowNodes :
         /\ \E kinds \in [1..k -> RunKinds] :
              nodes = [i \in 1..k |-> NodeOf(kinds[i], Id(i))]
         /\ \E m \in 0..MaxFlowConns :
              \E c \in [1..m -> Endpoints(k)] : connections = ConnsOf(c)
    /\ input_data \in Inputs
    /\ mode \in RunModes
    /\ strategy = ""
    /\ client = "unset"
    /\ http = "unset"
    /\ caller = "execute_flow"
    /\ pc = "app"
    /\ incoming = <<>>
    /\ queue = <<>>
    /\ result = <<>>
    /\ exc = NoExc
    /\ execution_order = <<>>
    /\ idx = 0
    /\ current_data = <<>>
    /\ trace = <<>>
    /\ ret = NoRet
    /\ callNo = 1
    /\ prev = NoRet
    /\ OthersIdle

\* lines 1472-1490: the flag is set, the start is logged and execute_flow
\* is called
AppStart ==
    /\ app_pc = "idle"
    /\ pc = "app"
    /\ agent_running' = TRUE
    /\ execution_log' = Append(execution_log, "INFO")
    /\ app_pc' = "executing"
    /\ pc' = "call"
    /\ UNCHANGED <<nodes, connections, input_data, mode, strategy, client, http, caller,
                   incoming, queue, result, exc, execution_order, idx,
                   current_data, trace, ret, callNo, prev, stats, recorded, now,
                   submitted, stopped, generated>>

\* lines 1492-1531: execute_flow has returned; the statistics and the log
\* are updated and the result is displayed.  An exception ends the try
\* block where it is raised and is reported by the except clause.
AppUpdate ==
    /\ app_pc = "executing"
    /\ pc = "done"
    /\ \E fault \in Faults :
         IF fault = "statistics"
         THEN UNCHANGED <<stats, execution_log, recorded, now>>
         ELSE /\ stats' = update_statistics(stats, ret)
              /\ execution_log' =
                    Append(execution_log,
                           IF Get(ret, "success", FALSE) THEN "INFO" ELSE "ERROR")
              /\ now' = now + 1
              /\ recorded' = Append(recorded,
                                [timestamp |-> now + 1, success |-> ret.success,
                                 response_time |-> ret.response_time,
                                 error |-> IF ret.success THEN PyNone ELSE ret.error])
    /\ app_pc' = "finally"
    /\ UNCHANGED <<nodes, connections, input_data, mode, strategy, client, http, caller,
                   pc, incoming, queue, result, exc, execution_order, idx,
                   current_data, trace, ret, callNo, prev, submitted,
                   agent_running, stopped, generated>>

\* a call that returns without a finally clause
AppReturn ==
    /\ app_pc = "finally"
    /\ app_pc' = "returned"
    /\ UNCHANGED <<nodes, connections, input_data, mode, strategy, client, http, caller,
                   pc, incoming, queue, result, exc, execution_order, idx,
                   current_data, trace, ret, callNo, prev, stats, recorded, now,
                   submitted, agent_running, execution_log, stopped, generated>>

\* lines 1532-1533: the finally clause
AppFinally ==
    /\ app_pc = "finally"
    /\ agent_running' = FALSE
    /\ app_pc' = "returned"
    /\ UNCHANGED <<nodes, connections, input_data, mode, strategy, client, http, caller,
                   pc, incoming, queue, result, exc, execution_order, idx,
                   current_data, trace, ret, callNo, prev, stats, recorded, now,
                   submitted, execution_log, stopped, generated>>

\* lines 1326-1327: the Stop Execution button
Stop ==
    /\ agent_running' = FALSE
    /\ stopped' = (stopped \/ app_pc \in {"executing", "finally"})
    /\ UNCHANGED <<nodes, connections, input_data, mode, strategy, client, http, caller,
                   pc, incoming, queue, result, exc, execution_order, idx,
                   current_data, trace, ret, callNo, prev, stats, recorded, now,
                   submitted, execution_log, app_pc, generated>>

NextRun ==
    \/ AppStart
    \/ Validate
    \/ SchedStart
    \/ SchedLoop
    \/ ExecStart
    \/ ExecNode
    \/ Return
    \/ AppUpdate
    \/ AppFinally
    \/ Stop

SpecRun == InitRun /\ [][NextRun]_vars

(***************************************************************************)
(* Graph vocabulary of the claims, defined from nodes and connections only *)
(***************************************************************************)
Listed(id) == id \in Range(node_ids)

Edges == {<<connections[i].from, connections[i].to>> : i \in 1..Len(connections)}

Successors(S) == {e[2] : e \in {d \in Edges : d[1] \in S}}

RECURSIVE ReachSet(_)
ReachSet(S) ==
    LET T == S \cup Successors(S) IN IF T = S THEN S ELSE ReachSet(T)

\* there is a path of at least one edge from a to b
Reach(a, b) == b \in ReachSet(Successors({a}))

OnCycle(id) == Reach(id, id)

Acyclic == \A e \in Edges : ~OnCycle(e[1])

AllEndpointsListed == \A e \in Edges : Listed(e[1]) /\ Listed(e[2])

IsPermutation(res, ids) ==
    /\ Len(res) = Len(ids)
    /\ Range(res) = Range(ids)
    /\ Cardinality(Range(res)) = Len(res)

\* every edge with both endpoints listed goes forward in res
RespectsEdges(res) ==
    \A e \in Edges :
        (Listed(e[1]) /\ Listed(e[2])) =>
            /\ Contains(res, e[1])
            /\ Contains(res, e[2])
            /\ IndexOf(res, e[1]) < IndexOf(res, e[2])

SchedFinished == caller = "direct" /\ pc \in {"returned", "raised"}

(***************************************************************************)
(* C1: for every acyclic node/edge set with unique node ids the scheduler  *)
(* returns a permutation of the node ids in which every edge with both     *)
(* endpoints listed goes forward.  Stated as in the claim, over every      *)
(* acyclic input, edges with unlisted endpoints included.                  *)
(***************************************************************************)
C1_Original ==
    (SchedFinished /\ Acyclic) =>
        /\ pc = "returned"
        /\ IsPermutation(result, node_ids)
        /\ RespectsEdges(result)

(***************************************************************************)
(* C8: when some edge names an endpoint that is not a listed node, the     *)
(* scheduler raises nothing and returns every listed node exactly once,    *)
(* ordered by the edges whose two endpoints are listed.                    *)
(***************************************************************************)
C8_Original ==
    (SchedFinished /\ ~AllEndpointsListed) =>
        /\ pc = "returned"
        /\ IsPermutation(result, node_ids)

(***************************************************************************)
(* C10: the ready queue is a stable FIFO.  The result starts with the      *)
(* nodes of in-degree zero in nodes-list order; every other emitted node   *)
(* comes in the order in which it became ready: by the position in the     *)
(* result of the last of its sources, then by the index in connections of  *)
(* the edge from that source that discharged it.                           *)
(***************************************************************************)
InDegreeZero(id) == \A e \in Edges : e[2] # id

Roots == SelectSeq(node_ids, InDegreeZero)

Sources(t) == {e[1] : e \in {d \in Edges : d[2] = t}}

Max(S) == CHOOSE x \in S : \A y \in S : y <= x

\* position in res of the source of t that was dequeued last
LastSourcePos(res, t) == Max({IndexOf(res, s) : s \in Sources(t)})

\* index of the last connection from that source to t
LastConn(res, t) ==
    Max({i \in 1..Len(connections) :
            /\ connections[i].to = t
            /\ connections[i].from = res[LastSourcePos(res, t)]})

ReadyBefore(res, t, u) ==
    \/ LastSourcePos(res, t) < LastSourcePos(res, u)
    \/ /\ LastSourcePos(res, t) = LastSourcePos(res, u)
       /\ LastConn(res, t) < LastConn(res, u)

C10_StableFifo ==
    (caller = "direct" /\ pc = "returned") =>
        /\ Len(result) >= Len(Roots)
        /\ SubSeq(result, 1, Len(Roots)) = Roots
        /\ \A i, j \in (Len(Roots) + 1)..Len(result) :
               i < j => ReadyBefore(result, result[i], result[j])

\* two roots, and later nodes made ready by different dequeues and by the
\* same dequeue
C10_Witness ==
    /\ caller = "direct" /\ pc = "returned"
    /\ Len(Roots) >= 2
    /\ \E i, j \in (Len(Roots) + 1)..Len(result) :
         i < j /\ LastSourcePos(result, result[i]) < LastSourcePos(result, result[j])

C10_WitnessSameSource ==
    /\ caller = "direct" /\ pc = "returned"
    /\ \E i, j \in (Len(Roots) + 1)..Len(result) :
         /\ i < j
         /\ LastSourcePos(result, result[i]) = LastSourcePos(result, result[j])
         /\ result[i] = Id(3) /\ result[j] = Id(2)

(***************************************************************************)
(* Flow vocabulary of the claims                                           *)
(***************************************************************************)
HasType(n) == "type" \in DOMAIN n

\* every node is a Node of the data model: it carries a type
WellTyped == \A i \in 1..Len(nodes) : HasType(nodes[i])

HasNodeOfType(t) ==
    \E i \in 1..Len(nodes) : HasType(nodes[i]) /\ nodes[i].type = t

Executable ==
    nodes # <<>> /\ HasNodeOfType("input") /\ HasNodeOfType("output")

NodeById(id) == nodes[CHOOSE i \in 1..Len(nodes) : nodes[i].id = id]

IsFailure(r) ==
    /\ DOMAIN r = {"success", "error", "response_time"}
    /\ r.success = FALSE
    /\ r.response_time \in Elapsed

\* a node without a type is met by one of the two scans of _validate_flow:
\* it comes before the first input node or before the first output node
ValidationRaises ==
    \E i \in 1..Len(nodes) :
        /\ ~HasType(nodes[i])
        /\ \A j \in 1..(i - 1) : HasType(nodes[j])
        /\ \/ \A j \in 1..(i - 1) : nodes[j].type # "input"
           \/ \A j \in 1..(i - 1) : nodes[j].type # "output"

DanglingTarget == \E i \in 1..Len(connections) : ~Listed(connections[i].to)

FirstDanglingTarget ==
    connections[CHOOSE i \in 1..Len(connections) :
                    /\ ~Listed(connections[i].to)
                    /\ \A j \in 1..(i - 1) : Listed(connections[j].to)].to

IsEchoFlow ==
    /\ nodes = <<NodeOf("input", Id(1)), NodeOf("prompt", Id(2)),
                 NodeOf("output", Id(3))>>
    /\ connections = <<[from |-> Id(1), to |-> Id(2)],
                       [from |-> Id(2), to |-> Id(3)]>>
    /\ input_data = <<"hi">>

C4_ThreadedInOrder ==
    /\ (caller = "execute_flow" /\ (pc = "nodes" \/ (pc = "done" /\ trace # <<>>))) =>
        /\ execution_order = result
        /\ Len(trace) <= Len(execution_order)
        /\ \A i \in 1..Len(trace) :
              /\ trace[i].node = execution_order[i]
              /\ trace[i].input = IF i = 1 THEN input_data ELSE trace[i - 1].output
        /\ pc = "nodes" => idx = Len(trace) + 1
        /\ pc = "nodes" =>
              current_data = IF trace = <<>> THEN input_data
                             ELSE trace[Len(trace)].output
    /\ (caller = "execute_flow" /\ pc = "done" /\ ret.success) =>
        /\ execution_order = result
        /\ Len(trace) = Len(execution_order)
        /\ ret.output = IF trace = <<>> THEN input_data
                        ELSE trace[Len(trace)].output
    /\ (pc = "done" /\ IsEchoFlow) =>
        /\ ret.success
        /\ ret.output = <<"Echo: ", "hi">>

\* a run of three nodes whose order the connections, not the nodes list,
\* decide
C4_Witness ==
    /\ pc = "done"
    /\ ret.success
    /\ Len(trace) = 3
    /\ execution_order # node_ids
    /\ ret.output # input_data

(***************************************************************************)
(* C5: a failure inside a node handler never aborts the run.  When the     *)
(* LLM call or the webhook POST fails, or a handler raises, the node's     *)
(* output is the error string ("LLM Error: ...", "Webhook error for URL:   *)
(* ...", "Error in <type>: ..."), the next node runs on that string, and   *)
(* the run is not aborted at that node: execute_flow returns success=true  *)
(* unless a node without a type, met later, aborts it.                     *)
(***************************************************************************)
HandlerFails(n) ==
    /\ HasType(n)
    /\ \/ n.type = "llm" /\ client = "fail"
       \/ n.type = "webhook" /\ Get(n.properties, "url", <<>>) # <<>> /\ http = "fail"
       \/ n.type = "prompt" /\ Get(n.properties, "template", <<>>) = PyNone

ErrorString(n) ==
    CASE n.type = "llm" -> <<"LLM Error: ">> \o ClientError
      [] n.type = "webhook" -> <<"Webhook error for URL: ">> \o n.properties.url
      [] n.type = "prompt" ->
           <<"Error in ", "prompt", ": ",
             "'NoneType' object has no attribute 'replace'">>

C5_HandlerFailureContained ==
    caller = "execute_flow" =>
    /\ \A i \in 1..Len(trace) :
          HandlerFails(NodeById(trace[i].node)) =>
              /\ trace[i].output = ErrorString(NodeById(trace[i].node))
              /\ i < Len(trace) =>
                    trace[i + 1].input = ErrorString(NodeById(trace[i].node))
    /\ (pc = "done" /\ execution_order # <<>>
          /\ \A i \in 1..Len(execution_order) : HasType(NodeById(execution_order[i]))) =>
          /\ ret.success
          /\ Len(trace) = Len(execution_order)
    /\ (pc = "done" /\ execution_order # <<>> /\ ~ret.success) =>
          /\ Len(trace) < Len(execution_order)
          /\ ~HasType(NodeById(execution_order[Len(trace) + 1]))

\* the LLM call fails in the middle of a run and the output node runs on
\* the error string
C5_Witness ==
    /\ pc = "done"
    /\ ret.success
    /\ Len(trace) = 3
    /\ NodeById(trace[2].node).type = "llm"
    /\ HandlerFails(NodeById(trace[2].node))
    /\ NodeById(trace[3].node).type = "output"
    /\ trace[3].input = <<"LLM Error: ">> \o ClientError
    /\ ret.output = <<"LLM Error: ">> \o ClientError

(***************************************************************************)
(* C6: execute_flow never lets an exception reach its caller.  An          *)
(* exception raised in validation (a node without a type), in scheduling   *)
(* (a connection to an unlisted node) or at the dispatch of a node         *)
(* without a type comes back as a result with success=false, the           *)
(* exception's message as error, and a response_time.                      *)
(***************************************************************************)
C6_ExceptionsBecomeResults ==
    caller = "execute_flow" =>
    /\ pc # "raised"
    /\ exc = NoExc
    /\ pc = "done" =>
          \/ IsFailure(ret)
          \/ /\ DOMAIN ret = {"success", "output", "response_time",
                              "intermediate_results"}
             /\ ret.success = TRUE
    /\ (pc = "done" /\ ValidationRaises) =>
          IsFailure(ret) /\ ret.error = KeyErrorStr("type")
    /\ (pc = "done" /\ ~ValidationRaises /\ Executable /\ DanglingTarget) =>
          IsFailure(ret) /\ ret.error = KeyErrorStr(FirstDanglingTarget)
    /\ (pc = "done" /\ ~ValidationRaises /\ Executable /\ ~DanglingTarget
          /\ \E i \in 1..Len(execution_order) : ~HasType(NodeById(execution_order[i]))) =>
          IsFailure(ret) /\ ret.error = KeyErrorStr("type")

\* a node ran, and the dispatch of the next raised
C6_Witness ==
    /\ pc = "done"
    /\ trace # <<>>
    /\ IsFailure(ret)
    /\ ret.error = KeyErrorStr("type")

(***************************************************************************)
(* C7: a node on a cycle never enters the scheduler's result and is never  *)
(* executed, and the cycle fails nothing: when the run of a flow with a    *)
(* cycle is reported as failed, the flow is invalid, a node has no type or *)
(* a connection names an unlisted target.                                  *)
(***************************************************************************)
HasCycle == \E i \in 1..Len(nodes) : OnCycle(nodes[i].id)

C7_CycleOmitted ==
    caller = "execute_flow" =>
    /\ \A i \in 1..Len(nodes) :
          OnCycle(nodes[i].id) =>
              /\ ~Contains(result, nodes[i].id)
              /\ ~Contains(execution_order, nodes[i].id)
              /\ \A j \in 1..Len(trace) : trace[j].node # nodes[i].id
    /\ (pc = "done" /\ HasCycle /\ WellTyped /\ Executable /\ ~DanglingTarget) =>
          /\ ret.success
          /\ Len(trace) = Len(execution_order)
          /\ Len(execution_order) < Len(nodes)

C7_Witness ==
    /\ pc = "done"
    /\ HasCycle
    /\ ret.success
    /\ trace # <<>>
    /\ \E i \in 1..Len(nodes) : ~OnCycle(nodes[i].id) /\ ~Contains(execution_order, nodes[i].id)

(***************************************************************************)
(* C9: execution is deterministic.  A second execute_flow call with the    *)
(* same flow, input and client runs the nodes in the same order and        *)
(* returns the same success flag and the same output or error as the       *)
(* first: nothing of the first call reaches the second.                    *)
(***************************************************************************)
C9_SecondCallSame ==
    (pc = "done" /\ callNo = 2) =>
        /\ ret.success = prev.success
        /\ prev.text = IF ret.success THEN ret.output ELSE ret.error
        /\ execution_order = prev.order

C9_Witness ==
    /\ pc = "done" /\ callNo = 2
    /\ ret.success
    /\ client = "ok"
    /\ Len(execution_order) = 3
    /\ execution_order # node_ids

(***************************************************************************)
(* C11: the mode argument has no effect on the result.  A call with mode   *)
(* 'parallel', 'conditional' or 'Sequential' runs the same nodes in the    *)
(* same order and returns the same success flag and the same output or     *)
(* error as the call with mode 'sequential' on the same flow, input and    *)
(* client.                                                                 *)
(***************************************************************************)
C11_ModeHasNoEffect ==
    (pc = "done" /\ callNo = 2 /\ prev.mode = "sequential") =>
        /\ mode \in OtherModes
        /\ ret.success = prev.success
        /\ prev.text = IF ret.success THEN ret.output ELSE ret.error
        /\ execution_order = prev.order
        /\ [i \in 1..Len(trace) |-> trace[i].node] = prev.ran

C11_Witness ==
    /\ pc = "done" /\ callNo = 2
    /\ prev.mode = "sequential"
    /\ mode = "Sequential"
    /\ strategy = "_execute_conditional"
    /\ ret.success
    /\ Len(trace) = 3
    /\ execution_order # node_ids

(***************************************************************************)
(* C12: each add_execution call adds 1 to total_runs and 1 to exactly one  *)
(* of successful_runs (success true) and failed_runs (success false): the  *)
(* counters count the recorded executions, the successes and the failures, *)
(* and total_runs = successful_runs + failed_runs.                         *)
(***************************************************************************)
C12_CountersAddUp ==
    pc = "stats" =>
        /\ stats.total_runs = Len(recorded)
        /\ stats.successful_runs =
               Cardinality({i \in 1..Len(recorded) : recorded[i].success})
        /\ stats.failed_runs =
               Cardinality({i \in 1..Len(recorded) : ~recorded[i].success})
        /\ stats.total_runs = stats.successful_runs + stats.failed_runs

\* one success and one failure give 2, 1, 1
C12_Witness ==
    /\ pc = "stats"
    /\ callNo = 2
    /\ Len(recorded) = 2
    /\ recorded[1].success /\ ~recorded[2].success
    /\ stats.total_runs = 2
    /\ stats.successful_runs = 1
    /\ stats.failed_runs = 1

(***************************************************************************)
(* C13: after n add_execution calls execution_history has length          *)
(* min(n, 100) and holds the most recent min(n, 100) records in recording  *)
(* order; the oldest record is the one evicted and the length never        *)
(* exceeds 100.                                                            *)
(***************************************************************************)
C13_HistoryKeepsLast ==
    pc = "stats" =>
        LET h == stats.execution_history
            n == Len(recorded)
            k == IF n < 100 THEN n ELSE 100
        IN  /\ Len(h) = k
            /\ Len(h) <= 100
            /\ \A i \in 1..k : h[i] = recorded[n - k + i]

\* the third call on a history of 98 evicts the oldest entry
C13_Witness ==
    /\ pc = "stats"
    /\ callNo = 3
    /\ Len(recorded) = 101
    /\ Len(stats.execution_history) = 100
    /\ stats.execution_history[1].timestamp = 2
    /\ stats.execution_history[100].timestamp = 101

(***************************************************************************)
(* C14: avg_response_time is the arithmetic mean of all response times     *)
(* recorded so far, those of evicted history entries included.             *)
(***************************************************************************)
RECURSIVE SumTimes(_, _)
SumTimes(rs, k) == IF k = 0 THEN 0 ELSE SumTimes(rs, k - 1) + rs[k].response_time

C14_AverageIsMean ==
    pc = "stats" =>
        LET n == Len(recorded) IN
          /\ n = 0 => stats.avg_response_time = [num |-> 0, den |-> 1]
          /\ n > 0 =>
                /\ stats.avg_response_time.num * n =
                       SumTimes(recorded, n) * stats.avg_response_time.den
                /\ stats.avg_response_time.den > 0

\* a mean over more than 100 executions that is not a whole number
C14_Witness ==
    /\ pc = "stats"
    /\ callNo >= 2
    /\ Len(recorded) > 100
    /\ Len(stats.execution_history) = 100
    /\ stats.avg_response_time.den > 1

(***************************************************************************)
(* C15: the application's update after a run leaves the stats in the       *)
(* state add_execution would leave them in: counters, running mean and     *)
(* one more history entry.                                                 *)
(***************************************************************************)
C15_Original ==
    pc = "app" => stats = Replay(recorded)

(***************************************************************************)
(* C16: a connection list that starts empty and grows only by pairs that   *)
(* validate_connection accepted against the current list holds no          *)
(* self-loop and no ordered pair twice; a pair already in the list is      *)
(* rejected, and a rejected submission leaves the list as it was.          *)
(***************************************************************************)
C16_NoLoopNoDuplicate ==
    pc = "canvas" =>
        /\ \A i \in 1..Len(connections) : connections[i].from # connections[i].to
        /\ \A i \in 1..Len(connections) : \A j \in 1..Len(connections) :
              (connections[i] = connections[j]) => i = j
        /\ submitted # NoSubmission =>
              /\ Contains(submitted.before,
                          [from |-> submitted.from, to |-> submitted.to])
                    => ~submitted.accepted
              /\ ~submitted.accepted => connections = submitted.before
              /\ submitted.accepted =>
                    connections = Append(submitted.before,
                                    [from |-> submitted.from, to |-> submitted.to])

\* a list that holds an edge and its reverse, after a duplicate was refused
C16_Witness ==
    /\ pc = "canvas"
    /\ Len(connections) = 2
    /\ connections[1].from = connections[2].to
    /\ connections[1].to = connections[2].from
    /\ submitted # NoSubmission
    /\ ~submitted.accepted
    /\ submitted.from # submitted.to
    /\ Contains(connections, [from |-> submitted.from, to |-> submitted.to])

(***************************************************************************)
(* Vocabulary of the claims about one node's handler                       *)
(***************************************************************************)
NodeCalled == pc \in {"returned", "raised"} /\ "type" \in DOMAIN nodes[1]

PropertiesOf(node) == Get(node, "properties", <<>>)

IsCalculator(node) ==
    /\ node.type = "tool"
    /\ Get(PropertiesOf(node), "tool_type", <<"calculator">>) = <<"calculator">>

\* digits, + - * / ( ) . and whitespace
ClaimChars == DigitChars \cup {"+", "-", "*", "/", "(", ")", ".", " "}

(***************************************************************************)
(* C17: the calculator evaluates its input exactly when the input consists *)
(* only of digits, + - * / ( ) . and whitespace: such an input yields the  *)
(* text of its value, or "Calculation error" when the evaluation fails;    *)
(* any other input yields "Invalid mathematical expression"; the handler   *)
(* never raises.                                                           *)
(***************************************************************************)
C17_Original ==
    (NodeCalled /\ IsCalculator(nodes[1])) =>
        /\ pc = "returned"
        /\ current_data =
              IF Matches(ClaimChars, input_data)
              THEN Answer(Eval(input_data))
              ELSE <<"Invalid mathematical expression">>

(***************************************************************************)
(* C18: the pass-through handlers return the text they are given, for      *)
(* every text and every properties: input, router and validator nodes, a   *)
(* webhook node whose url is empty or missing (no HTTP call is made), a    *)
(* parser node whose parser_type is not 'json' or whose input does not     *)
(* parse as JSON, and a node of a type the dispatch does not know.         *)
(***************************************************************************)
IsPassThrough(node, text) ==
    \/ node.type \in {"input", "router", "validator"}
    \/ /\ node.type = "webhook"
       /\ Get(PropertiesOf(node), "url", <<>>) = <<>>
    \/ /\ node.type = "parser"
       /\ \/ Get(PropertiesOf(node), "parser_type", <<"json">>) # <<"json">>
          \/ ~loads(text).ok
    \/ node.type \notin NodeTypes

C18_PassThrough ==
    (NodeCalled /\ IsPassThrough(nodes[1], input_data)) =>
        /\ pc = "returned"
        /\ current_data = input_data
        /\ http = "unset"

\* a parser node of another type given a text that json.loads accepts
C18_Witness ==
    /\ pc = "returned"
    /\ nodes[1].type = "parser"
    /\ Get(PropertiesOf(nodes[1]), "parser_type", <<"json">>) = <<"xml">>
    /\ loads(input_data).ok
    /\ dumps(loads(input_data).v, 0) # input_data
    /\ current_data = input_data

(***************************************************************************)
(* C19: the prompt handler returns properties.template (default           *)
(* "{input}") with every token {input} replaced by the text when "input"   *)
(* is among properties.variables (default ["input"]), and the template as  *)
(* it is, the text dropped, when it is not.                                *)
(***************************************************************************)

\* the first k tokens of template, each {input} among them replaced by text
RECURSIVE Substituted(_, _, _)
Substituted(template, text, k) ==
    IF k = 0 THEN <<>>
    ELSE Substituted(template, text, k - 1)
         \o (IF template[k] = "{input}" THEN text ELSE <<template[k]>>)

C19_PromptSubstitutes ==
    (NodeCalled /\ nodes[1].type = "prompt") =>
        LET template == Get(PropertiesOf(nodes[1]), "template", <<"{input}">>)
            variables == Get(PropertiesOf(nodes[1]), "variables", <<"input">>)
        IN  /\ pc = "returned"
            /\ (\E i \in 1..Len(variables) : variables[i] = "input") =>
                  current_data = Substituted(template, input_data, Len(template))
            /\ ~(\E i \in 1..Len(variables) : variables[i] = "input") =>
                  current_data = template

\* "Hello {input}!" with variables ["input"] and input "World"
C19_Witness ==
    /\ pc = "returned"
    /\ nodes[1].type = "prompt"
    /\ PropertiesOf(nodes[1]) =
          [template |-> <<"Hello ", "{input}", "!">>, variables |-> <<"input">>]
    /\ input_data = <<"World">>
    /\ current_data = <<"Hello ", "World", "!">>

(***************************************************************************)
(* C20: the output handler puts the text in the place of {input} in        *)
(* properties.template when the template is non-empty and contains the     *)
(* token; in every other case it returns the text unchanged;               *)
(* properties.format never changes the result.                             *)
(***************************************************************************)
C20_OutputSubstitutes ==
    (NodeCalled /\ nodes[1].type = "output") =>
        LET template == Get(PropertiesOf(nodes[1]), "template", <<"{input}">>)
        IN  /\ pc = "returned"
            /\ current_data =
                  IF template # <<>> /\ (\E i \in 1..Len(template) : template[i] = "{input}")
                  THEN Substituted(template, input_data, Len(template))
                  ELSE input_data

\* a template without the token and a format that names a conversion
C20_Witness ==
    /\ pc = "returned"
    /\ nodes[1].type = "output"
    /\ PropertiesOf(nodes[1]) = [template |-> <<"done">>, format |-> <<"json">>]
    /\ input_data = <<"[", "1", ",", "2", "]">>
    /\ current_data = input_data

(***************************************************************************)
(* C21: every result of execute_flow has one of two shapes: success=true   *)
(* with output, response_time and intermediate_results = [] and no error;  *)
(* or success=false with error and response_time and no output.            *)
(***************************************************************************)
C21_ResultShapes ==
    ret # NoRet =>
        \/ /\ DOMAIN ret = {"success", "output", "response_time",
                            "intermediate_results"}
           /\ ret.success = TRUE
           /\ ret.intermediate_results = <<>>
           /\ ret.response_time \in Elapsed
        \/ /\ DOMAIN ret = {"success", "error", "response_time"}
           /\ ret.success = FALSE
           /\ ret.response_time \in Elapsed

\* a failure that comes from the except clause after two handlers have run
C21_Witness ==
    /\ pc = "done"
    /\ ret # NoRet
    /\ ~ret.success
    /\ ret.error # InvalidFlow
    /\ Len(trace) = 2

(***************************************************************************)
(* C22: every id generate_node_id returns differs from every id an         *)
(* earlier call returned, for any node types at any clock values, two      *)
(* calls for the same type within the same millisecond included.           *)
(***************************************************************************)
C22_Original ==
    \A i \in 1..Len(generated) : \A j \in 1..Len(generated) :
        i # j => generated[i] # generated[j]

(***************************************************************************)
(* C23: when _validate_flow rejects the flow, execute_flow returns at      *)
(* once: no execution order is computed, no node handler is invoked and    *)
(* no LLM or HTTP call is made.                                            *)
(***************************************************************************)
Rejected == validate_flow(nodes, connections) = Returned(FALSE)

C23_NothingRunsWhenRejected ==
    Rejected =>
        /\ pc \in {"call", "done"}
        /\ strategy = ""
        /\ incoming = <<>> /\ queue = <<>> /\ result = <<>>
        /\ execution_order = <<>> /\ idx = 0
        /\ trace = <<>>
        /\ client = "unset" /\ http = "unset"
        /\ pc = "done" => IsFailure(ret) /\ ret.error = InvalidFlow

\* a rejected flow with a root, an llm node and a webhook node: all of
\* them would have run
C23_Witness ==
    /\ Rejected
    /\ pc = "done"
    /\ Len(nodes) = 3
    /\ \E i \in 1..3 : CallsClient(nodes[i])
    /\ \E i \in 1..3 : CallsHttp(nodes[i])
    /\ connections = <<>>

(***************************************************************************)
(* C24: the scheduler terminates on every finite node/edge set, cyclic or  *)
(* not: each node id enters the ready queue at most once, so the loop ends *)
(* after at most |nodes| dequeues, with the queue empty.                   *)
(***************************************************************************)
NoDuplicates(s) == \A i \in 1..Len(s) : \A j \in 1..Len(s) : s[i] = s[j] => i = j

\* every dequeue appends to result: result and queue together hold the ids
\* that have entered the queue so far
C24_EntersOnce ==
    /\ NoDuplicates(result \o queue)
    /\ Len(result) <= Len(nodes)
    /\ pc = "returned" => queue = <<>>

C24_SchedulerTerminates == []C24_EntersOnce /\ <>SchedFinished

\* the scheduler has returned on a cyclic input after it dequeued a node
C24_Witness ==
    /\ pc = "returned"
    /\ HasCycle
    /\ result # <<>>
    /\ Len(result) < Len(nodes)

(***************************************************************************)
(* C26: for unique node ids and edges whose endpoints are all listed,      *)
(* cyclic or not, a node id is in the scheduler's result only if the       *)
(* source of every one of its incoming edges is in the result before it.   *)
(* So a node downstream of a cycle, though not on it, is left out as well. *)
(***************************************************************************)
SourcesFirst(res) ==
    \A p \in 1..Len(res) : \A i \in 1..Len(connections) :
        connections[i].to = res[p] =>
            /\ Contains(res, connections[i].from)
            /\ IndexOf(res, connections[i].from) < p

\* id is not on a cycle but can be reached from one
DownstreamOfCycle(id) ==
    /\ ~OnCycle(id)
    /\ \E i \in 1..Len(nodes) : OnCycle(nodes[i].id) /\ Reach(nodes[i].id, id)

C26_SourcesScheduledFirst ==
    (caller = "direct" /\ AllEndpointsListed) =>
        /\ SourcesFirst(result)
        /\ \A i \in 1..Len(nodes) :
              DownstreamOfCycle(nodes[i].id) => ~Contains(result, nodes[i].id)

\* the scheduler has returned some nodes and left out a node that is
\* downstream of a cycle
C26_Witness ==
    /\ caller = "direct"
    /\ pc = "returned"
    /\ AllEndpointsListed
    /\ result # <<>>
    /\ \E i \in 1..Len(nodes) :
          DownstreamOfCycle(nodes[i].id) /\ ~Contains(result, nodes[i].id)

(***************************************************************************)
(* C27: for any edge list over unique, listed node ids, with duplicate     *)
(* edges, self-loops and cycles, the scheduler raises no exception and its *)
(* result holds each node id at most once; a target with duplicate         *)
(* incoming edges is scheduled once all the copies have been discharged.   *)
(***************************************************************************)
HasDuplicateEdge ==
    \E i \in 1..Len(connections) : \E j \in 1..Len(connections) :
        i # j /\ connections[i] = connections[j]

\* every incoming edge of id comes from a node of res
AllSourcesIn(res, id) ==
    \A i \in 1..Len(connections) :
        connections[i].to = id => Contains(res, connections[i].from)

C27_DuplicatesAndLoopsTolerated ==
    (caller = "direct" /\ AllEndpointsListed) =>
        /\ pc # "raised"
        /\ exc = NoExc
        /\ NoDuplicates(result)
        /\ pc = "returned" =>
              \A i \in 1..Len(nodes) :
                  AllSourcesIn(result, nodes[i].id) => Contains(result, nodes[i].id)

\* the same edge twice, and its target in the result
C27_Witness ==
    /\ caller = "direct"
    /\ pc = "returned"
    /\ AllEndpointsListed
    /\ HasDuplicateEdge
    /\ Contains(result, connections[1].to)
    /\ connections[1].from # connections[1].to

(***************************************************************************)
(* C28: when the flow passes validation and the scheduler's order is       *)
(* empty (every node has an incoming edge, e.g. the input and the output   *)
(* node form a 2-cycle), execute_flow invokes no handler and returns       *)
(* success=true with output equal to input_text.                           *)
(***************************************************************************)
\* the scheduler has returned to _execute_sequential (idx is 0 until then)
\* and its order is empty
EmptyOrder == caller = "execute_flow" /\ idx >= 1 /\ execution_order = <<>>

C28_EmptyOrderEchoes ==
    EmptyOrder =>
        /\ trace = <<>>
        /\ client = "unset" /\ http = "unset"
        /\ current_data = input_data
        /\ pc \in {"nodes", "done"}
        /\ pc = "done" => ret \in {Success(input_data, t) : t \in Elapsed}

\* the input node and the output node form a 2-cycle
C28_Witness ==
    /\ EmptyOrder
    /\ pc = "done"
    /\ Len(nodes) = 2
    /\ nodes[1].type = "input" /\ nodes[2].type = "output"
    /\ connections = <<[from |-> "n1", to |-> "n2"], [from |-> "n2", to |-> "n1"]>>
    /\ ret.success /\ ret.output = input_data

(***************************************************************************)
(* C29: execute_flow leaves the caller's flow unchanged on every path      *)
(* (invalid flow, success, failure): the nodes list, each node's type and  *)
(* properties and the connections list are after the call what they were   *)
(* before it; the scheduler's bookkeeping is done on its own dict.         *)
(***************************************************************************)
C29_FlowUnchanged == [][nodes' = nodes /\ connections' = connections]_vars

\* a call that has returned after the scheduler discharged connections
\* and handlers ran
C29_Witness ==
    /\ caller = "execute_flow"
    /\ pc = "done"
    /\ connections # <<>>
    /\ Len(result) >= 2
    /\ trace # <<>>
    /\ \E i \in 1..Len(connections) :
          Contains(result, connections[i].from) /\ Contains(result, connections[i].to)

(***************************************************************************)
(* C25: the Stop action only clears the agent_running flag: it leaves the  *)
(* flow, the execution statistics and the execution log unchanged, and it  *)
(* neither interrupts nor alters a run that is in flight, for there is no  *)
(* cancellation point between the nodes.                                   *)
(***************************************************************************)
\* the run went through the whole execution order, each node fed with the
\* output of the one before it
RanToTheEnd ==
    /\ idx = Len(execution_order) + 1
    /\ Len(trace) = Len(execution_order)
    /\ \A i \in 1..Len(trace) :
          /\ trace[i].node = execution_order[i]
          /\ trace[i].input = IF i = 1 THEN input_data ELSE trace[i - 1].output
    /\ ret.output = IF trace = <<>> THEN input_data ELSE trace[Len(trace)].output

\* the run stopped at the node that raised
EndedAtFailure ==
    \/ ret.error = InvalidFlow /\ trace = <<>>
    \/ idx = 0
    \/ /\ idx \in 1..Len(execution_order)
       /\ Lookup(nodes, execution_order[idx]).found
       /\ execute_node(Lookup(nodes, execution_order[idx]).node,
                       current_data, client, http).raised

C25_StopDoesNotReachTheRun ==
    (app_pc # "idle" /\ pc = "done") =>
        IF ret.success THEN RanToTheEnd ELSE EndedAtFailure

C25_StopOnlyClearsFlag ==
    /\ []C25_StopDoesNotReachTheRun
    /\ [][Stop => /\ agent_running' = FALSE
                  /\ UNCHANGED <<nodes, connections, stats, execution_log,
                                 input_data, mode, strategy, client, http, pc,
                                 incoming, queue, result, execution_order, idx,
                                 current_data, trace, ret, app_pc>>]_vars

\* Stop was pressed while the run was in flight, and the run executed three
\* nodes and succeeded
C25_Witness ==
    /\ stopped
    /\ app_pc = "returned"
    /\ ret.success
    /\ Len(trace) = 3
    /\ stats.total_runs = 1

(***************************************************************************)
(* C30: agent_running is true only while _execute_agent_flow is in         *)
(* progress: the call sets it at its start, and it is false whenever the   *)
(* call has returned, whether the run succeeded, failed, or an exception   *)
(* was raised while the log or the statistics were updated.                *)
(***************************************************************************)
InProgress == app_pc \in {"executing", "finally"}

C30_FlagFollowsCall == agent_running => InProgress

C30_RunningOnlyDuringCall ==
    /\ []C30_FlagFollowsCall
    /\ [][(app_pc = "idle" /\ app_pc' # "idle") => agent_running']_vars

\* the call has returned after an exception at the update of the
\* statistics: the start is the only entry of the log, no run is counted
C30_Witness ==
    /\ app_pc = "returned"
    /\ pc = "done"
    /\ ~stopped
    /\ Len(execution_log) = 1
    /\ stats.total_runs = 0
    /\ ~agent_running

====
